---- MODULE Spec2Model ----
(***************************************************************************)
(* Verification model of the event-reduction pipeline of the workflow      *)
(* backend: the event denoiser, the breakpoint detector, the page          *)
(* aggregator, the page-level segment builder, the confidence scorer, the  *)
(* workflow deduplicator, the workflow validator, the persistence of       *)
(* workflows, the candidate builder with its intent classifier, the        *)
(* workflow exporter with the reader of its files, and the conversion of   *)
(* a segment into a workflow.  Each component has its own specification    *)
(* (SpecDenoise, SpecBreak, SpecPage, SpecSegment, SpecScore, SpecDedup,   *)
(* SpecValidate, SpecSave, SpecCandidate, SpecExport, SpecProcessor).      *)
(* SpecClicks, SpecTabs and SpecGroup run a single filter on longer lists, *)
(* SpecBreakRuns runs the breakpoint detector on longer batches, and       *)
(* SpecCompare runs the comparison with the store beyond its batch sizes.  *)
(* The variables of the other components stay at their idle values.        *)
(***************************************************************************)
EXTENDS Integers, Sequences, FiniteSets, TLC

VARIABLES
    dnEvents,   \* denoiser: the event batch
    dnTrace,    \* denoiser: the lists of the latest denoise_events call
    dnResults,  \* denoiser: what each denoise_events call returned
    bkEvents,   \* breakpoint detector: the event batch
    bkTrace,    \* breakpoint detector: sorted events, break points, segments
    bkDone,     \* breakpoint detector: detect_breakpoints has returned
    pgEvents,   \* page aggregator: the event batch
    pgStatus,   \* page aggregator: "idle", "returned" or "raised"
    pgSessions, \* page aggregator: the PageSessions returned
    pgGroups,   \* segment builder: <<>> or <<groups>>, what _find_page_breakpoints returned
    scSegments, \* confidence scorer: the segments to score
    scScores,   \* confidence scorer: per segment the base score, raw score and confidence_score
    scDone,     \* confidence scorer: _calculate_confidence_scores has ended
    scRaised,   \* confidence scorer: it ended by an exception
    ddWorkflows, \* deduplicator: the new workflows handed to deduplicate_workflows
    ddStored,   \* deduplicator: the stored workflows, newest first
    ddPc,       \* deduplicator: "start", "within", "compare", "done" or "raised"
    ddBuckets,  \* deduplicator: the domain buckets not finished yet, the current one first
    ddLocal,    \* deduplicator: the locals of the comparison against stored workflows
    ddUnique,   \* deduplicator: unique_workflows, in the end the list returned
    ddCalls,    \* deduplicator: the oracle calls made so far
    wvSteps,    \* validator: the steps of the workflow handed to validate_workflow
    wvCatalog,  \* validator: the tool names of the catalog
    wvResult,   \* validator: <<>> or <<(is_valid, error_message)>>, what validate_workflow returned
    svWorkflows, \* saver: the step count of each workflow handed to save_workflows
    svFaults,   \* saver: per workflow the error its writes meet, if any
    svPc,       \* saver: "idle", "loop" or "done"
    svNext,     \* saver: the position of the next workflow of the loop
    svPending,  \* saver: the rows added to the session and not yet committed
    svStore,    \* saver: the rows persisted
    svSaved,    \* saver: saved_ids, in the end the list returned
    psSessions, \* candidate builder: the page sessions handed to _process_page_sessions
    psAvailable, \* candidate builder: llm_available of the intent classifier
    psPc,       \* candidate builder: "idle", "start", "loop", "done" or "raised"
    psGroups,   \* candidate builder: the page groups not processed yet
    psCandidates, \* candidate builder: candidate_workflows, in the end the list returned
    psCalls,    \* candidate builder: what each call of classify_segment_intent returned
    flEvents,   \* single filter: the list handed to one filter of the denoiser
    flResult,   \* single filter: <<>> or <<list>>, what the filter returned
    exFiles,    \* exporter: the files of the output directory, name to content
    exCalls,    \* exporter: the calls of export_workflows made
    exTotal,    \* exporter: the workflows handed to export_workflows so far
    exRead,     \* exporter: <<>> or <<set>>, the compact records read back from the files
    swSegment,  \* workflow processor: the segment handed to _segment_to_workflow and the fault that hits the call
    swResult    \* workflow processor: <<>> or <<what _segment_to_workflow returned>>

dnVars == <<dnEvents, dnTrace, dnResults>>
bkVars == <<bkEvents, bkTrace, bkDone>>
pgVars == <<pgEvents, pgStatus, pgSessions, pgGroups>>

scVars == <<scSegments, scScores, scDone, scRaised>>

ddVars == <<ddWorkflows, ddStored, ddPc, ddBuckets, ddLocal, ddUnique, ddCalls>>

wvVars == <<wvSteps, wvCatalog, wvResult>>

svVars == <<svWorkflows, svFaults, svPc, svNext, svPending, svStore, svSaved>>

psVars == <<psSessions, psAvailable, psPc, psGroups, psCandidates, psCalls>>

flVars == <<flEvents, flResult>>

exVars == <<exFiles, exCalls, exTotal, exRead>>

swVars == <<swSegment, swResult>>

vars == <<dnVars, bkVars, pgVars, scVars, ddVars, wvVars, svVars, psVars, flVars, exVars, swVars>>

\* what a step of one component leaves alone: the variables of the others
dnOthers == <<bkVars, pgVars, scVars, ddVars, wvVars, svVars, psVars, flVars, exVars, swVars>>
bkOthers == <<dnVars, pgVars, scVars, ddVars, wvVars, svVars, psVars, flVars, exVars, swVars>>
pgOthers == <<dnVars, bkVars, scVars, ddVars, wvVars, svVars, psVars, flVars, exVars, swVars>>
scOthers == <<dnVars, bkVars, pgVars, ddVars, wvVars, svVars, psVars, flVars, exVars, swVars>>
ddOthers == <<dnVars, bkVars, pgVars, scVars, wvVars, svVars, psVars, flVars, exVars, swVars>>
wvOthers == <<dnVars, bkVars, pgVars, scVars, ddVars, svVars, psVars, flVars, exVars, swVars>>
svOthers == <<dnVars, bkVars, pgVars, scVars, ddVars, wvVars, psVars, flVars, exVars, swVars>>
psOthers == <<dnVars, bkVars, pgVars, scVars, ddVars, wvVars, svVars, flVars, exVars, swVars>>
flOthers == <<dnVars, bkVars, pgVars, scVars, ddVars, wvVars, svVars, psVars, exVars, swVars>>
exOthers == <<dnVars, bkVars, pgVars, scVars, ddVars, wvVars, svVars, psVars, flVars, swVars>>
swOthers == <<dnVars, bkVars, pgVars, scVars, ddVars, wvVars, svVars, psVars, flVars, exVars>>

(***************************************************************************)
(* Generic sequence helpers                                                *)
(***************************************************************************)

\* the elements of s at the positions in K, in position order
SelectIdx(s, K) ==
    LET F[i \in 0..Len(s)] ==
            IF i = 0 THEN <<>>
            ELSE IF i \in K THEN Append(F[i - 1], s[i]) ELSE F[i - 1]
    IN F[Len(s)]

\* e inserted behind every element whose timestamp is not larger
InsertByTimestamp(s, e) ==
    LET k == Cardinality({i \in 1..Len(s) : s[i].timestamp <= e.timestamp})
    IN SubSeq(s, 1, k) \o <<e>> \o SubSeq(s, k + 1, Len(s))

\* mutant of sorted_by_timestamp: the batch is taken in arrival order
arrival_order(events) == events

\* sorted(events, key=lambda x: x.timestamp): stable, ascending
sorted_by_timestamp(events) ==
    LET F[i \in 0..Len(events)] ==
            IF i = 0 THEN <<>> ELSE InsertByTimestamp(F[i - 1], events[i])
    IN F[Len(events)]

(***************************************************************************)
(* Event Denoiser (DenoiseService)                                         *)
(***************************************************************************)

rapid_click_threshold_ms == 200
transient_tab_switch_threshold_ms == 2000
accidental_event_threshold_ms == 100
max_consecutive_same_element_clicks == 3
focus_blur_threshold_ms == 500

\* payload.element absent (no payload, or a payload without element)
NoElement == [present |-> FALSE, id |-> "", tag |-> "", class_name |-> ""]

\* _is_same_element; an id or class name of None or "" is falsy
is_same_element(event1, event2) ==
    /\ event1.element.present
    /\ event2.element.present
    /\ \/ /\ event1.element.id # ""
          /\ event2.element.id # ""
          /\ event1.element.id = event2.element.id
       \/ /\ event1.element.tag = event2.element.tag
          /\ event1.element.class_name # ""
          /\ event2.element.class_name # ""
          /\ event1.element.class_name = event2.element.class_name

\* mutant of is_rapid_click: a gap equal to the threshold is not rapid
is_rapid_click_strict(events, index) ==
    /\ events[index].type = "click"
    /\ index # 1
    /\ events[index - 1].type = "click"
    /\ events[index].timestamp - events[index - 1].timestamp < rapid_click_threshold_ms
    /\ is_same_element(events[index], events[index - 1])

\* _is_rapid_click(events[index], events, index), index counted from 1
is_rapid_click(events, index) ==
    /\ events[index].type = "click"
    /\ index # 1
    /\ events[index - 1].type = "click"
    /\ ~(events[index].timestamp - events[index - 1].timestamp > rapid_click_threshold_ms)
    /\ is_same_element(events[index], events[index - 1])

\* mutant of is_transient_tab_switch: the look-ahead covers 5 events
is_transient_tab_switch_next_five(events, index) ==
    /\ events[index].type = "tab-switch"
    /\ \E i \in (index + 1)..(index + 5) :
          /\ i <= Len(events)
          /\ events[i].type = "tab-switch"
          /\ events[i].timestamp - events[index].timestamp < transient_tab_switch_threshold_ms

\* _is_transient_tab_switch: looks at the next 4 events
is_transient_tab_switch(events, index) ==
    /\ events[index].type = "tab-switch"
    /\ \E i \in (index + 1)..(index + 4) :
          /\ i <= Len(events)
          /\ events[i].type = "tab-switch"
          /\ events[i].timestamp - events[index].timestamp < transient_tab_switch_threshold_ms

\* mutant of is_accidental_event: the gap to the next event counts as well
is_accidental_event_either_side(events, index) ==
    \/ /\ index # 1
       /\ events[index].timestamp - events[index - 1].timestamp < accidental_event_threshold_ms
    \/ /\ index # Len(events)
       /\ events[index + 1].timestamp - events[index].timestamp < accidental_event_threshold_ms

\* mutant of is_accidental_event: the gap is taken to the first event of the list
is_accidental_event_since_first(events, index) ==
    /\ index # 1
    /\ events[index].timestamp - events[1].timestamp < accidental_event_threshold_ms

\* _is_accidental_event
is_accidental_event(events, index) ==
    /\ index # 1
    /\ events[index].timestamp - events[index - 1].timestamp < accidental_event_threshold_ms

\* the loop of _is_excessive_consecutive_clicking: range(index - 1, max(0, index - 10), -1)
\* in 0-based positions, i.e. positions index-1 down to max(2, index-9) counted from 1
RECURSIVE consecutive_count(_, _, _)
consecutive_count(events, index, i) ==
    IF i < 2 \/ i < index - 9 THEN 0
    ELSE IF events[i].type = "click" /\ is_same_element(events[index], events[i])
         THEN 1 + consecutive_count(events, index, i - 1)
         ELSE 0

\* _is_excessive_consecutive_clicking
is_excessive_consecutive_clicking(events, index) ==
    /\ events[index].type = "click"
    /\ 1 + consecutive_count(events, index, index - 1) > max_consecutive_same_element_clicks

\* _is_focus_blur_noise
is_focus_blur_noise(events, index) ==
    /\ events[index].type \in {"focus", "blur"}
    /\ index > 1
    /\ events[index - 1].type \in {"focus", "blur"}
    /\ events[index].type # events[index - 1].type
    /\ events[index].timestamp - events[index - 1].timestamp < focus_blur_threshold_ms

remove_rapid_clicks(events) ==
    IF Len(events) < 2 THEN events
    ELSE SelectIdx(events, {i \in 1..Len(events) : ~is_rapid_click(events, i)})

remove_transient_tab_switches(events) ==
    IF Len(events) < 2 THEN events
    ELSE SelectIdx(events, {i \in 1..Len(events) : ~is_transient_tab_switch(events, i)})

remove_accidental_events(events) ==
    IF Len(events) < 2 THEN events
    ELSE SelectIdx(events, {i \in 1..Len(events) : ~is_accidental_event(events, i)})

remove_consecutive_same_element_clicks(events) ==
    IF Len(events) < 2 THEN events
    ELSE SelectIdx(events, {i \in 1..Len(events) : ~is_excessive_consecutive_clicking(events, i)})

remove_focus_blur_noise(events) ==
    IF Len(events) < 2 THEN events
    ELSE SelectIdx(events, {i \in 1..Len(events) : ~is_focus_blur_noise(events, i)})

\* the lists denoise_events computes, stage by stage; `final` is what it returns
denoise_stages(events) ==
    IF events = <<>>
    THEN [sorted |-> events, rapid |-> events, transient |-> events,
          accidental |-> events, consecutive |-> events, final |-> events]
    ELSE LET s0 == sorted_by_timestamp(events)
             s1 == remove_rapid_clicks(s0)
             s2 == remove_transient_tab_switches(s1)
             s3 == remove_accidental_events(s2)
             s4 == remove_consecutive_same_element_clicks(s3)
             s5 == remove_focus_blur_noise(s4)
         IN [sorted |-> s0, rapid |-> s1, transient |-> s2,
             accidental |-> s3, consecutive |-> s4, final |-> s5]

denoise_events(events) == denoise_stages(events).final

(***************************************************************************)
(* Denoiser inputs                                                         *)
(***************************************************************************)

MaxEvents == 3

DnTimestamps == {0, 50, 140, 250}

ElemBtn1 == [present |-> TRUE, id |-> "btn1", tag |-> "button", class_name |-> ""]
ElemBtn2 == [present |-> TRUE, id |-> "btn2", tag |-> "button", class_name |-> "cta"]
ElemCta == [present |-> TRUE, id |-> "", tag |-> "button", class_name |-> "cta"]

\* type and element of the events the denoiser is run on
DnKinds ==
    {[type |-> "click", element |-> e] : e \in {ElemBtn1, ElemBtn2, ElemCta}}
    \cup {[type |-> t, element |-> NoElement] : t \in {"type", "tab-switch", "focus", "blur"}}

\* an event batch of n events: the id of an event is its arrival position
DnBatch(n, k, t) ==
    [i \in 1..n |-> [id |-> i, type |-> k[i].type, timestamp |-> t[i],
                     element |-> k[i].element]]

DnInit ==
    /\ \E n \in 0..MaxEvents :
          \E k \in [1..n -> DnKinds], t \in [1..n -> DnTimestamps] :
             dnEvents = DnBatch(n, k, t)
    /\ dnTrace = denoise_stages(<<>>)
    /\ dnResults = <<>>

\* one call of denoise_events; the next call is given the list this one returned
DenoiseEvents ==
    /\ Len(dnResults) < 2
    /\ LET arg == IF dnResults = <<>> THEN dnEvents ELSE dnResults[Len(dnResults)]
       IN /\ dnTrace' = denoise_stages(arg)
          /\ dnResults' = Append(dnResults, denoise_events(arg))
    /\ UNCHANGED dnEvents
    /\ UNCHANGED dnOthers

DnNext == DenoiseEvents

DnIdle ==
    /\ dnEvents = <<>>
    /\ dnTrace = denoise_stages(<<>>)
    /\ dnResults = <<>>

(***************************************************************************)
(* Denoiser claims                                                         *)
(***************************************************************************)

\* C1: denoising is idempotent: the second call, given the list the first
\* call returned, returns that list unchanged.
C1_Idempotent ==
    Len(dnResults) = 2 => dnResults[2] = dnResults[1]

\* (ts, id) of a strictly before (ts, id) of b: the order of the stable sort
\* of the batch, the id being the arrival position
BeforeInSortedBatch(a, b) ==
    \/ a.timestamp < b.timestamp
    \/ a.timestamp = b.timestamp /\ a.id < b.id

\* C2: what denoise_events returns is a subsequence of the batch stably
\* sorted by timestamp: every returned event is an event of the batch, and
\* the returned events are strictly increasing in the stable-sort order (so
\* none is repeated and none is out of order).
C2_SubsequenceOfSorted ==
    \A c \in 1..Len(dnResults) :
        LET out == dnResults[c]
        IN /\ \A i \in 1..Len(out) :
                 /\ out[i].id \in 1..Len(dnEvents)
                 /\ dnEvents[out[i].id] = out[i]
           /\ \A i \in 1..Len(out) : \A j \in 1..Len(out) :
                 i < j => BeforeInSortedBatch(out[i], out[j])

C2_Witness ==
    /\ Len(dnResults) >= 1
    /\ \E i \in 1..Len(dnEvents) : \E j \in 1..Len(dnEvents) :
          i < j /\ dnEvents[i].timestamp > dnEvents[j].timestamp
    /\ Len(dnResults[1]) >= 2
    /\ Len(dnResults[1]) < Len(dnEvents)

\* "the same element" as the claim words it: same non-empty element id, or
\* same tag and same non-empty class name
SameTarget(a, b) ==
    /\ a.element.present /\ b.element.present
    /\ \/ a.element.id # "" /\ a.element.id = b.element.id
       \/ /\ a.element.tag = b.element.tag
          /\ a.element.class_name # ""
          /\ a.element.class_name = b.element.class_name

\* a click within 200 ms of the click `before` on the same element
RapidAfter(before, e) ==
    /\ e.type = "click"
    /\ before.type = "click"
    /\ e.timestamp - before.timestamp <= 200
    /\ SameTarget(e, before)

\* the rapid-click filter as the claim words it: a click is compared with the
\* last event the filter retained
RapidByRetained(s) ==
    LET F[i \in 0..Len(s)] ==
            IF i = 0 THEN <<>>
            ELSE IF F[i - 1] # <<>> /\ RapidAfter(F[i - 1][Len(F[i - 1])], s[i])
                 THEN F[i - 1]
                 ELSE Append(F[i - 1], s[i])
    IN F[Len(s)]

\* the scenario of the claim: two clicks on btn1 at t=0 and t=50
TwoClicksOnBtn1 ==
    <<[id |-> 1, type |-> "click", timestamp |-> 0, element |-> ElemBtn1],
      [id |-> 2, type |-> "click", timestamp |-> 50, element |-> ElemBtn1]>>

\* C3 as stated: the rapid-click filter drops a click exactly when the last
\* event it retained is a click on the same element at most 200 ms earlier.
C3_DropsAgainstRetained ==
    dnResults # <<>> => dnTrace.rapid = RapidByRetained(dnTrace.sorted)

\* C3 as amended: the rapid-click filter drops a click exactly when the event
\* right before it in the filter's input (retained or not) is a click on the
\* same element at most 200 ms earlier; every other event is kept, in order.
\* For two clicks on btn1 at t=0 and t=50 one event remains.
C3_DropsAgainstPrevious ==
    dnResults # <<>> =>
        LET s == dnTrace.sorted
        IN /\ dnTrace.rapid =
                 SelectIdx(s, {i \in 1..Len(s) : ~(i > 1 /\ RapidAfter(s[i - 1], s[i]))})
           /\ (Len(dnResults) = 1 /\ dnEvents = TwoClicksOnBtn1) =>
                 /\ Len(dnTrace.rapid) = 1
                 /\ dnResults[1] = <<TwoClicksOnBtn1[1]>>

\* three clicks in a row of which the filter drops the last two, the last
\* being more than 200 ms after the only click retained
C3_Witness ==
    /\ dnResults # <<>>
    /\ Len(dnTrace.sorted) = 3
    /\ Len(dnTrace.rapid) = 1
    /\ \A i \in 1..3 : dnTrace.sorted[i].type = "click"
    /\ dnTrace.sorted[3].timestamp - dnTrace.sorted[1].timestamp > 200

\* the accidental-event filter as the claim words it: an event is compared
\* with the last event the filter retained
AccidentalByRetained(s) ==
    LET F[i \in 0..Len(s)] ==
            IF i = 0 THEN <<>>
            ELSE IF /\ F[i - 1] # <<>>
                    /\ s[i].timestamp - F[i - 1][Len(F[i - 1])].timestamp < 100
                 THEN F[i - 1]
                 ELSE Append(F[i - 1], s[i])
    IN F[Len(s)]

\* C20 as stated: the accidental-event filter never drops the first event and
\* drops a later event exactly when its gap to the last event the filter
\* retained is below 100 ms.
C20_AccidentalAgainstRetained ==
    dnResults # <<>> => dnTrace.accidental = AccidentalByRetained(dnTrace.transient)

\* C20 as amended: the accidental-event filter never drops the first event of
\* its input and drops a later event exactly when its gap to the event right
\* before it in the filter's input (retained or not) is below 100 ms; the
\* events kept stay in order.
C20_AccidentalAgainstPrevious ==
    dnResults # <<>> =>
        LET s == dnTrace.transient
        IN /\ dnTrace.accidental =
                 SelectIdx(s, {i \in 1..Len(s) :
                                  ~(i > 1 /\ s[i].timestamp - s[i - 1].timestamp < 100)})
           /\ s # <<>> => /\ dnTrace.accidental # <<>>
                          /\ dnTrace.accidental[1] = s[1]

\* three events reach the filter, each less than 100 ms after the one before
\* and the last 100 ms or more after the first: the filter keeps the first only
C20_Witness ==
    /\ dnResults # <<>>
    /\ Len(dnTrace.transient) = 3
    /\ dnTrace.transient[2].timestamp - dnTrace.transient[1].timestamp < 100
    /\ dnTrace.transient[3].timestamp - dnTrace.transient[2].timestamp < 100
    /\ dnTrace.transient[3].timestamp - dnTrace.transient[1].timestamp >= 100
    /\ dnTrace.accidental = <<dnTrace.transient[1]>>

(***************************************************************************)
(* Breakpoint Detector (BreakpointDetector)                                *)
(***************************************************************************)

large_time_gap_ms == 120000
tab_switch_gap_ms == 5000
activity_threshold == 5
activity_time_threshold_ms == 30000
activity_lookback == 20

task_completion_signals ==
    {"form_submit", "purchase_complete", "checkout_success", "signup_complete",
     "login_success", "download_complete"}

context_switch_indicators == {"tab-switch", "window-focus", "app-switch"}

\* Optional values that are None
None == "<None>"

\* an event without url (None or ""); a url is its host part and the rest
NoUrl == [present |-> FALSE, netloc |-> "", path |-> ""]

\* str.lower() on the strings of the model
Lower(text) ==
    CASE text = "A.com" -> "a.com"
      [] text = "B.com" -> "b.com"
      [] text = "Thank you" -> "thank you"
      [] text = "Cart" -> "cart"
      [] OTHER -> text

\* any(pattern in text for pattern in completion_patterns), text lowercased,
\* on the strings of the model
contains_completion_pattern(text) ==
    text \in {"/order/success", "thank you"}

\* BrowserEvent.domain: None without url, else the lowercased netloc of the
\* url, which is "" for a url without host part (about:blank, file:///...)
domain(event) ==
    IF ~event.url.present THEN None ELSE Lower(event.url.netloc)

\* mutant of is_domain_change: a domain change is only recognised together
\* with a time gap of domain_change_threshold_ms
is_domain_change_after_gap(current, previous) ==
    /\ ~(domain(current) \in {None, ""} \/ domain(previous) \in {None, ""})
    /\ domain(current) # domain(previous)
    /\ current.timestamp - previous.timestamp > 30000

\* _is_domain_change; `not domain` holds of None and of ""
is_domain_change(current, previous) ==
    LET current_domain == domain(current)
        previous_domain == domain(previous)
    IN /\ ~(current_domain \in {None, ""} \/ previous_domain \in {None, ""})
       /\ current_domain # previous_domain

\* _is_large_time_gap
is_large_time_gap(current, previous) ==
    current.timestamp - previous.timestamp > large_time_gap_ms

\* _is_task_completion
is_task_completion(event) ==
    \/ event.type \in task_completion_signals
    \/ /\ event.url.present
       /\ \/ contains_completion_pattern(Lower(event.url.netloc))
          \/ contains_completion_pattern(Lower(event.url.path))
    \/ /\ event.title \notin {None, ""}
       /\ contains_completion_pattern(Lower(event.title))

\* mutant of is_context_switch: only a tab-switch to a different tab after
\* more than tab_switch_gap_ms counts
is_context_switch_to_other_tab(current, previous) ==
    /\ current.type = "tab-switch"
    /\ current.tab_id # previous.tab_id
    /\ current.timestamp - previous.timestamp > tab_switch_gap_ms

\* _is_context_switch
is_context_switch(current, previous) ==
    \/ current.type \in context_switch_indicators
    \/ /\ current.type = "tab-switch"
       /\ current.tab_id # previous.tab_id
       /\ current.timestamp - previous.timestamp > tab_switch_gap_ms

\* _is_significant_page_load, index counted from 1
is_significant_page_load(events, index) ==
    /\ events[index].type = "page-load"
    /\ Cardinality({i \in 1..(index - 1) :
            /\ i >= index - activity_lookback
            /\ events[i].timestamp >= events[index].timestamp - activity_time_threshold_ms
            /\ events[i].type \in {"click", "type", "highlight", "copy", "paste"}})
         >= activity_threshold

\* the test _identify_break_points makes for the event at position index >= 2
is_break_before(events, index) ==
    \/ is_domain_change(events[index], events[index - 1])
    \/ is_large_time_gap(events[index], events[index - 1])
    \/ is_task_completion(events[index])
    \/ is_context_switch(events[index], events[index - 1])
    \/ is_significant_page_load(events, index)

\* mutant of identify_break_points: every signal that fires for an event
\* appends the event's index
identify_break_points_per_signal(events) ==
    IF Len(events) < 2 THEN <<0, Len(events)>>
    ELSE LET hits(i) ==
                 [k \in 1..Cardinality({c \in {
                      <<1, is_domain_change(events[i], events[i - 1])>>,
                      <<2, is_large_time_gap(events[i], events[i - 1])>>,
                      <<3, is_task_completion(events[i])>>,
                      <<4, is_context_switch(events[i], events[i - 1])>>,
                      <<5, is_significant_page_load(events, i)>>} : c[2]}) |-> i - 1]
             F[i \in 1..Len(events)] ==
                 IF i = 1 THEN <<0>> ELSE F[i - 1] \o hits(i)
         IN Append(F[Len(events)], Len(events))

\* _identify_break_points: the list of break points, as 0-based indices
identify_break_points(events) ==
    IF Len(events) < 2 THEN <<0, Len(events)>>
    ELSE LET F[i \in 1..Len(events)] ==
                 IF i = 1 THEN <<0>>
                 ELSE IF is_break_before(events, i) THEN Append(F[i - 1], i - 1)
                      ELSE F[i - 1]
         IN Append(F[Len(events)], Len(events))

\* _create_segments: the slices events[start_idx:end_idx] with 2 events or more
create_segments(events, break_points) ==
    LET F[i \in 0..(Len(break_points) - 1)] ==
            IF i = 0 THEN <<>>
            ELSE LET start_idx == break_points[i]
                     end_idx == break_points[i + 1]
                 IN IF end_idx - start_idx < 1 THEN F[i - 1]
                    ELSE IF end_idx - start_idx < 2 THEN F[i - 1]
                    ELSE Append(F[i - 1], SubSeq(events, start_idx + 1, end_idx))
    IN F[Len(break_points) - 1]

\* detect_breakpoints: what it computes, `segments` is what it returns
detect_breakpoints(events) ==
    IF events = <<>>
    THEN [sorted |-> <<>>, break_points |-> <<>>, segments |-> <<>>]
    ELSE LET sorted_events == sorted_by_timestamp(events)
             break_points == identify_break_points(sorted_events)
         IN [sorted |-> sorted_events, break_points |-> break_points,
             segments |-> create_segments(sorted_events, break_points)]

(***************************************************************************)
(* Breakpoint detector inputs                                              *)
(***************************************************************************)

MaxBreakEvents == 3

BkTimestamps == {0, 1000, 130000}

UrlA == [present |-> TRUE, netloc |-> "a.com", path |-> "/cart"]
UrlAUpper == [present |-> TRUE, netloc |-> "A.com", path |-> "/cart"]
UrlB == [present |-> TRUE, netloc |-> "B.com", path |-> "/"]
UrlBlank == [present |-> TRUE, netloc |-> "", path |-> "blank"]
UrlASuccess == [present |-> TRUE, netloc |-> "a.com", path |-> "/order/success"]

\* type, url, title and tab of the events the detector is run on
BkKinds ==
    {[type |-> "click", url |-> u, title |-> "Cart", tab_id |-> 1] :
        u \in {UrlA, UrlAUpper, UrlB, UrlBlank, NoUrl}}
    \cup {[type |-> "tab-switch", url |-> UrlA, title |-> None, tab_id |-> 2],
          [type |-> "page-load", url |-> UrlASuccess, title |-> "Cart", tab_id |-> 1],
          [type |-> "type", url |-> UrlB, title |-> "Thank you", tab_id |-> 1]}

BkBatch(n, k, t) ==
    [i \in 1..n |-> [id |-> i, type |-> k[i].type, timestamp |-> t[i], url |-> k[i].url,
                     title |-> k[i].title, tab_id |-> k[i].tab_id]]

BkIdle ==
    /\ bkEvents = <<>>
    /\ bkTrace = detect_breakpoints(<<>>)
    /\ bkDone = FALSE

BkInit ==
    /\ \E n \in 0..MaxBreakEvents :
          \E k \in [1..n -> BkKinds], t \in [1..n -> BkTimestamps] :
             bkEvents = BkBatch(n, k, t)
    /\ bkTrace = detect_breakpoints(<<>>)
    /\ bkDone = FALSE

DetectBreakpoints ==
    /\ ~bkDone
    /\ bkTrace' = detect_breakpoints(bkEvents)
    /\ bkDone' = TRUE
    /\ UNCHANGED bkEvents
    /\ UNCHANGED bkOthers

BkNext == DetectBreakpoints

(***************************************************************************)
(* Breakpoint detector claims                                              *)
(***************************************************************************)

\* the returned segment that holds the event with this id, 0 if none does
SegmentOf(id) ==
    LET S == {k \in 1..Len(bkTrace.segments) :
                 \E j \in 1..Len(bkTrace.segments[k]) : bkTrace.segments[k][j].id = id}
    IN IF S = {} THEN 0 ELSE CHOOSE k \in S : TRUE

\* positions i, i+1 of the sorted batch are separated: i (0-based, the
\* position of the second event) is a break point, and no returned segment
\* holds both events
SeparatedAt(i) ==
    /\ \E b \in 1..Len(bkTrace.break_points) : bkTrace.break_points[b] = i
    /\ \/ SegmentOf(bkTrace.sorted[i].id) = 0
       \/ SegmentOf(bkTrace.sorted[i].id) # SegmentOf(bkTrace.sorted[i + 1].id)

\* C4 as stated: two events adjacent in timestamp order whose domains are
\* both non-null and differ are separated by a break point.
C4_NonNullDomainsSeparated ==
    bkDone =>
        \A i \in 1..(Len(bkTrace.sorted) - 1) :
            LET d1 == domain(bkTrace.sorted[i])
                d2 == domain(bkTrace.sorted[i + 1])
            IN (d1 # None /\ d2 # None /\ d1 # d2) => SeparatedAt(i)

\* C4 as amended: two events adjacent in timestamp order whose domains are
\* both non-null and non-empty and differ are separated by a break point.
C4_NonEmptyDomainsSeparated ==
    bkDone =>
        \A i \in 1..(Len(bkTrace.sorted) - 1) :
            LET d1 == domain(bkTrace.sorted[i])
                d2 == domain(bkTrace.sorted[i + 1])
            IN (d1 \notin {None, ""} /\ d2 \notin {None, ""} /\ d1 # d2) => SeparatedAt(i)

\* a domain change with no other break signal, inside a batch of three events
\* of which two form a returned segment
C4_Witness ==
    /\ bkDone
    /\ Len(bkTrace.sorted) = 3
    /\ Len(bkTrace.segments) = 1
    /\ \E i \in 1..2 :
          /\ domain(bkTrace.sorted[i]) = "a.com"
          /\ domain(bkTrace.sorted[i + 1]) = "b.com"
          /\ bkTrace.sorted[i + 1].timestamp - bkTrace.sorted[i].timestamp <= 1000
          /\ ~is_task_completion(bkTrace.sorted[i + 1])
          /\ bkTrace.sorted[i + 1].type = "click"

(***************************************************************************)
(* Breakpoint detector on longer batches of fewer kinds                    *)
(***************************************************************************)

MaxRunEvents == 5

\* either side of the 5000 ms of the tab-switch test
BkRunTimestamps == {0, 6000}

\* clicks on two domains and tab-switches within the tab and to another tab
BkRunKinds ==
    {[type |-> "click", url |-> u, title |-> "Cart", tab_id |-> 1] : u \in {UrlA, UrlB}}
    \cup {[type |-> "tab-switch", url |-> UrlA, title |-> None, tab_id |-> t] : t \in {1, 2}}

BkRunInit ==
    /\ \E n \in 0..MaxRunEvents :
          \E k \in [1..n -> BkRunKinds], t \in [1..n -> BkRunTimestamps] :
             bkEvents = BkBatch(n, k, t)
    /\ bkTrace = detect_breakpoints(<<>>)
    /\ bkDone = FALSE

\* the spans between consecutive break points that hold 2 events or more, in
\* the order of the break points
SpansOf(s, bp) ==
    LET F[i \in 0..(Len(bp) - 1)] ==
            IF i = 0 THEN <<>>
            ELSE IF bp[i + 1] - bp[i] >= 2
                 THEN Append(F[i - 1], [j \in 1..(bp[i + 1] - bp[i]) |-> s[bp[i] + j]])
                 ELSE F[i - 1]
    IN F[Len(bp) - 1]

\* C23: in detect_breakpoints the list of break points starts with 0, ends
\* with the number of events and is strictly increasing (no index twice); the
\* segments are exactly the spans between consecutive break points that hold
\* at least 2 events, so they are contiguous, pairwise disjoint and in
\* timestamp order.
C23_BreakPointsPartition ==
    (bkDone /\ bkEvents # <<>>) =>
        LET bp == bkTrace.break_points
            s == bkTrace.sorted
            segs == bkTrace.segments
        IN /\ bp[1] = 0
           /\ bp[Len(bp)] = Len(s)
           /\ \A i \in 1..(Len(bp) - 1) : bp[i] < bp[i + 1]
           /\ segs = SpansOf(s, bp)
           /\ \A a, b \in 1..Len(segs) :
                 a < b =>
                    /\ \A i \in 1..Len(segs[a]), j \in 1..Len(segs[b]) :
                          /\ segs[a][i].id # segs[b][j].id
                          /\ segs[a][i].timestamp <= segs[b][j].timestamp
           /\ \A a \in 1..Len(segs) :
                 \A i \in 1..(Len(segs[a]) - 1) :
                    segs[a][i].timestamp <= segs[a][i + 1].timestamp

\* a batch given out of timestamp order that yields two segments and a span
\* of one event that is no segment
C23_Witness ==
    /\ bkDone
    /\ Len(bkTrace.segments) = 2
    /\ Len(bkTrace.sorted) = 5
    /\ bkTrace.sorted # bkEvents
    /\ Len(bkTrace.break_points) = 4

\* C28: every tab-switch at sorted index >= 1 is a break point, whatever its
\* tab_id and its time gap to the previous event; the test for a tab-switch
\* to a different tab after more than 5000 ms never decides whether an event
\* is a context switch.
C28_TabSwitchAlwaysBreaks ==
    bkDone =>
        \A i \in 2..Len(bkTrace.sorted) :
            LET current == bkTrace.sorted[i]
                previous == bkTrace.sorted[i - 1]
            IN /\ current.type = "tab-switch" =>
                     \E b \in 1..Len(bkTrace.break_points) : bkTrace.break_points[b] = i - 1
               /\ is_context_switch(current, previous)
                     <=> current.type \in context_switch_indicators

\* a tab-switch within the tab of the previous event, on its domain and at
\* its timestamp, that is a break point
C28_Witness ==
    /\ bkDone
    /\ \E i \in 2..Len(bkTrace.sorted) :
          /\ bkTrace.sorted[i].type = "tab-switch"
          /\ bkTrace.sorted[i].tab_id = bkTrace.sorted[i - 1].tab_id
          /\ bkTrace.sorted[i].timestamp = bkTrace.sorted[i - 1].timestamp
          /\ domain(bkTrace.sorted[i]) = domain(bkTrace.sorted[i - 1])
          /\ \E b \in 1..Len(bkTrace.break_points) : bkTrace.break_points[b] = i - 1

(***************************************************************************)
(* Page Aggregator (PageService)                                           *)
(***************************************************************************)

min_page_duration_ms == 1000
page_rapid_click_threshold_ms == 200
page_accidental_event_threshold_ms == 100
page_focus_blur_threshold_ms == 500

\* tab_id None
NoTab == 0 - 1

\* the url "unknown"
UnknownUrl == [present |-> TRUE, netloc |-> "", path |-> "unknown"]

\* f"{event.url or 'unknown'}:{event.tab_id or 0}"
page_key(event) ==
    <<IF event.url.present THEN event.url ELSE UnknownUrl,
      IF event.tab_id = NoTab THEN 0 ELSE event.tab_id>>

\* _group_events_by_page: the groups in the order in which their keys first
\* occur in events, every group sorted by timestamp
group_events_by_page(events) ==
    LET keys[i \in 0..Len(events)] ==
            IF i = 0 THEN <<>>
            ELSE IF \E j \in 1..Len(keys[i - 1]) : keys[i - 1][j] = page_key(events[i])
                 THEN keys[i - 1]
                 ELSE Append(keys[i - 1], page_key(events[i]))
        page_keys == keys[Len(events)]
    IN [g \in 1..Len(page_keys) |->
           sorted_by_timestamp(
               SelectIdx(events, {i \in 1..Len(events) : page_key(events[i]) = page_keys[g]}))]

\* PageService._is_rapid_click
page_is_rapid_click(events, index) ==
    /\ events[index].type = "click"
    /\ index # 1
    /\ events[index - 1].type = "click"
    /\ ~(events[index].timestamp - events[index - 1].timestamp > page_rapid_click_threshold_ms)
    /\ events[index].url = events[index - 1].url
    /\ events[index].tab_id = events[index - 1].tab_id

\* PageService._is_accidental_event
page_is_accidental_event(events, index) ==
    /\ index # 1
    /\ events[index].timestamp - events[index - 1].timestamp < page_accidental_event_threshold_ms

\* PageService._is_focus_blur_noise
page_is_focus_blur_noise(events, index) ==
    /\ events[index].type \in {"focus", "blur"}
    /\ index > 1
    /\ events[index - 1].type \in {"focus", "blur"}
    /\ events[index].type # events[index - 1].type
    /\ events[index].timestamp - events[index - 1].timestamp < page_focus_blur_threshold_ms

\* _denoise_page_events
denoise_page_events(events) ==
    IF Len(events) < 2 THEN events
    ELSE SelectIdx(events, {i \in 1..Len(events) :
             /\ ~page_is_rapid_click(events, i)
             /\ ~page_is_accidental_event(events, i)
             /\ ~page_is_focus_blur_noise(events, i)})

\* _summarize_page_content raises AttributeError on the first event that has
\* a payload (EventPayload has no method get); without one it returns the
\* default text
summarize_page_content_raises(events) ==
    \E i \in 1..Len(events) : events[i].has_payload

\* mutant of page_event_count: the events left after the page-local denoise
denoised_event_count(events) == Len(denoise_page_events(events))

\* event_count=len(events) in _create_page_summary
page_event_count(events) == Len(events)

\* _create_page_summary: kind "none" (returns None), "raise", or "session"
create_page_summary(events) ==
    IF events = <<>> THEN [kind |-> "none", session |-> <<>>]
    ELSE LET denoised_events == denoise_page_events(events)
         IN IF denoised_events = <<>> THEN [kind |-> "none", session |-> <<>>]
            ELSE LET first_event == denoised_events[1]
                     last_event == denoised_events[Len(denoised_events)]
                     duration_ms == last_event.timestamp - first_event.timestamp
                 IN IF duration_ms < min_page_duration_ms
                    THEN [kind |-> "none", session |-> <<>>]
                    ELSE IF summarize_page_content_raises(denoised_events)
                    THEN [kind |-> "raise", session |-> <<>>]
                    ELSE [kind |-> "session", session |-> <<
                           [url |-> IF first_event.url.present THEN first_event.url
                                    ELSE UnknownUrl,
                            title |-> IF first_event.title \in {None, ""} THEN "Unknown Page"
                                      ELSE first_event.title,
                            start_time |-> first_event.timestamp,
                            end_time |-> last_event.timestamp,
                            duration_ms |-> duration_ms,
                            content_summary |-> "No content available",
                            event_count |-> page_event_count(events),
                            domain |-> domain(first_event),
                            tab_id |-> first_event.tab_id,
                            segment_type |-> "unknown",
                            tool_categories |-> <<>>]>>]

\* group_events_into_page_sessions: the groups are summarised in order; an
\* exception of _create_page_summary ends the call
group_events_into_page_sessions(events) ==
    IF events = <<>> THEN [raised |-> FALSE, sessions |-> <<>>]
    ELSE LET page_groups == group_events_by_page(events)
             F[g \in 0..Len(page_groups)] ==
                 IF g = 0 THEN [raised |-> FALSE, sessions |-> <<>>]
                 ELSE IF F[g - 1].raised THEN F[g - 1]
                 ELSE LET r == create_page_summary(page_groups[g])
                      IN CASE r.kind = "raise" -> [raised |-> TRUE, sessions |-> <<>>]
                           [] r.kind = "none" -> F[g - 1]
                           [] OTHER -> [raised |-> FALSE,
                                        sessions |-> F[g - 1].sessions \o r.session]
         IN F[Len(page_groups)]

(***************************************************************************)
(* Segment Builder (segmentation.EventSegmentationService)                 *)
(***************************************************************************)

page_gap_ms == 120000

\* mutant of is_page_breakpoint: the tab change is not looked at
is_page_breakpoint_no_tab(current, previous) ==
    \/ current.domain # previous.domain
    \/ current.start_time - previous.end_time > page_gap_ms

\* _is_page_breakpoint
is_page_breakpoint(current, previous) ==
    \/ current.domain # previous.domain
    \/ current.start_time - previous.end_time > page_gap_ms
    \/ current.tab_id # previous.tab_id

\* _find_page_breakpoints: [segments, current_segment] after each page
find_page_breakpoints(page_sessions) ==
    LET F[i \in 0..Len(page_sessions)] ==
            IF i = 0 THEN [segments |-> <<>>, current_segment |-> <<>>]
            ELSE LET page == page_sessions[i]
                     cur == F[i - 1].current_segment
                 IN IF cur = <<>>
                    THEN [segments |-> F[i - 1].segments, current_segment |-> <<page>>]
                    ELSE IF is_page_breakpoint(page, cur[Len(cur)])
                    THEN [segments |-> IF Len(cur) >= 1 THEN Append(F[i - 1].segments, cur)
                                       ELSE F[i - 1].segments,
                          current_segment |-> <<page>>]
                    ELSE [segments |-> F[i - 1].segments,
                          current_segment |-> Append(cur, page)]
        last == F[Len(page_sessions)]
    IN IF last.current_segment # <<>> THEN Append(last.segments, last.current_segment)
       ELSE last.segments

(***************************************************************************)
(* Page aggregator and segment builder inputs                              *)
(***************************************************************************)

MaxPageEvents == 4
MaxPages == 3

UrlACheckout == [present |-> TRUE, netloc |-> "a.com", path |-> "/checkout"]

PgEvent(id, type, timestamp, url, tab_id, has_payload) ==
    [id |-> id, type |-> type, timestamp |-> timestamp, url |-> url, tab_id |-> tab_id,
     title |-> IF url.present THEN "Cart" ELSE None, has_payload |-> has_payload]

\* the events a batch is made of; a batch holds an event at most once
PgPool ==
    <<PgEvent(1, "click", 0, UrlA, 1, FALSE),
      PgEvent(2, "click", 150, UrlA, 1, FALSE),
      PgEvent(3, "type", 1000, UrlA, 1, FALSE),
      PgEvent(4, "page-load", 500, UrlACheckout, 1, TRUE),
      PgEvent(5, "click", 2000, UrlACheckout, 1, FALSE),
      PgEvent(6, "click", 100, UrlB, 2, FALSE),
      PgEvent(7, "focus", 1050, UrlB, 2, FALSE),
      PgEvent(8, "blur", 1120, UrlB, 2, FALSE),
      PgEvent(9, "type", 50, NoUrl, NoTab, FALSE),
      PgEvent(10, "type", 1100, NoUrl, 0, FALSE),
      PgEvent(11, "click", 1500, UrlB, 2, FALSE),
      PgEvent(12, "click", 500, UrlACheckout, 1, FALSE)>>

PgIdle ==
    /\ pgEvents = <<>>
    /\ pgStatus = "idle"
    /\ pgSessions = <<>>
    /\ pgGroups = <<>>

PgInit ==
    /\ \E n \in 0..MaxPageEvents :
          \E f \in [1..n -> 1..Len(PgPool)] :
             /\ \A i \in 1..n : \A j \in 1..n : f[i] = f[j] => i = j
             /\ pgEvents = [i \in 1..n |-> PgPool[f[i]]]
    /\ pgStatus = "idle"
    /\ pgSessions = <<>>
    /\ pgGroups = <<>>

\* the start, end and duration of the page sessions the segment builder is run on
SgTimes ==
    {[start_time |-> 0, end_time |-> 1000],
     [start_time |-> 11000, end_time |-> 12000],
     [start_time |-> 121000, end_time |-> 122500],
     [start_time |-> 125000, end_time |-> 126000]}

SgSession(d, tab_id, t) ==
    [url |-> [present |-> TRUE, netloc |-> IF d = None THEN "" ELSE d, path |-> "/"],
     title |-> "Cart",
     start_time |-> t.start_time, end_time |-> t.end_time,
     duration_ms |-> t.end_time - t.start_time,
     content_summary |-> "No content available", event_count |-> 2,
     domain |-> d, tab_id |-> tab_id, segment_type |-> "unknown", tool_categories |-> <<>>]

SgSessions ==
    {SgSession(d, tab, t) : d \in {"a.com", "b.com", None}, tab \in {1, 2}, t \in SgTimes}

\* the page sessions handed to _find_page_breakpoints, drawn directly
SgInit ==
    /\ pgEvents = <<>>
    /\ pgStatus = "returned"
    /\ \E n \in 1..MaxPages : pgSessions \in [1..n -> SgSessions]
    /\ pgGroups = <<>>

\* PageService.group_events_into_page_sessions on the batch as it arrived
GroupEventsIntoPageSessions ==
    /\ pgStatus = "idle"
    /\ LET r == group_events_into_page_sessions(pgEvents)
       IN /\ pgStatus' = IF r.raised THEN "raised" ELSE "returned"
          /\ pgSessions' = r.sessions
    /\ UNCHANGED <<pgEvents, pgGroups>>
    /\ UNCHANGED pgOthers

\* _find_page_breakpoints, called by _process_page_sessions when there are page sessions
FindPageBreakpoints ==
    /\ pgStatus = "returned"
    /\ pgSessions # <<>>
    /\ pgGroups = <<>>
    /\ pgGroups' = <<find_page_breakpoints(pgSessions)>>
    /\ UNCHANGED <<pgEvents, pgStatus, pgSessions>>
    /\ UNCHANGED pgOthers

PgNext == GroupEventsIntoPageSessions \/ FindPageBreakpoints

SgNext == FindPageBreakpoints

(***************************************************************************)
(* Page aggregator and segment builder claims                              *)
(***************************************************************************)

\* the sum of f[1], ..., f[Len(f)]
SumSeq(f) ==
    LET F[i \in 0..Len(f)] == IF i = 0 THEN 0 ELSE F[i - 1] + f[i]
    IN F[Len(f)]

\* the (url, tab_id) group a page session stands for
SessionKey(session) ==
    <<session.url, IF session.tab_id = NoTab THEN 0 ELSE session.tab_id>>

\* the positions of the batch whose event belongs to the group of this key
EventsOfGroup(key) ==
    {i \in 1..Len(pgEvents) :
        /\ (IF pgEvents[i].url.present THEN pgEvents[i].url ELSE UnknownUrl) = key[1]
        /\ (IF pgEvents[i].tab_id = NoTab THEN 0 ELSE pgEvents[i].tab_id) = key[2]}

\* C5: the sum of event_count over the returned PageSessions is the number of
\* batch events whose (url, tab_id) group was not dropped: the sessions stand
\* for pairwise different groups, the event_count of each is the size of its
\* group before the page-local denoise, and the sum counts every event of a
\* surviving group once.
C5_EventCountSum ==
    pgStatus = "returned" =>
        /\ \A a \in 1..Len(pgSessions) : \A b \in 1..Len(pgSessions) :
              SessionKey(pgSessions[a]) = SessionKey(pgSessions[b]) => a = b
        /\ \A a \in 1..Len(pgSessions) :
              pgSessions[a].event_count =
                  Cardinality(EventsOfGroup(SessionKey(pgSessions[a])))
        /\ SumSeq([a \in 1..Len(pgSessions) |-> pgSessions[a].event_count]) =
              Cardinality(UNION {EventsOfGroup(SessionKey(pgSessions[a])) :
                                    a \in 1..Len(pgSessions)})

\* a session of three events of which the page-local denoise drops one, next
\* to an event whose group was dropped
C5_Witness ==
    /\ pgStatus = "returned"
    /\ Len(pgEvents) = 4
    /\ Len(pgSessions) = 1
    /\ pgSessions[1].event_count = 3
    /\ \E i \in 1..4 : \E j \in 1..4 :
          /\ pgEvents[i].id = 1
          /\ pgEvents[j].id = 2

\* the permutations of a list
Perms(s) ==
    {[i \in 1..Len(s) |-> s[f[i]]] :
        f \in {g \in [1..Len(s) -> 1..Len(s)] :
                  \A i \in 1..Len(s) : \A j \in 1..Len(s) : g[i] = g[j] => i = j}}

\* C6: for a batch with pairwise distinct timestamps the PageSessions
\* returned (contents and order), and the groups built from them, are the
\* same for every permutation of the batch.
C6_PermutationInvariant ==
    (/\ pgStatus = "returned"
     /\ \A i \in 1..Len(pgEvents) : \A j \in 1..Len(pgEvents) :
           pgEvents[i].timestamp = pgEvents[j].timestamp => i = j)
    => \A p \in Perms(pgEvents) :
          LET r == group_events_into_page_sessions(p)
          IN /\ ~r.raised
             /\ r.sessions = pgSessions
             /\ (pgGroups # <<>> /\ r.sessions # <<>>) =>
                   find_page_breakpoints(r.sessions) = pgGroups[1]

\* the break rule between consecutive pages p then q, as the claim words it
PagesSplit(p, q) ==
    \/ q.domain # p.domain
    \/ q.start_time - p.end_time > 120000
    \/ q.tab_id # p.tab_id

\* the groups joined in order
Flatten(groups) ==
    LET F[i \in 0..Len(groups)] == IF i = 0 THEN <<>> ELSE F[i - 1] \o groups[i]
    IN F[Len(groups)]

\* the positions of the page list at which a group ends and another begins
GroupEnds(groups) ==
    {Len(Flatten(SubSeq(groups, 1, k))) : k \in 1..(Len(groups) - 1)}

\* C7: _find_page_breakpoints splits the page list into non-empty groups
\* whose concatenation in order is the page list, and consecutive pages p
\* then q are in different groups exactly when the domain differs, or
\* q.start_time - p.end_time > 120000, or the tab differs; a.com then b.com
\* 10 s apart give two single-page groups.
C7_PageGroups ==
    pgGroups # <<>> =>
        LET groups == pgGroups[1]
            a == SgSession("a.com", 1, [start_time |-> 0, end_time |-> 1000])
            b == SgSession("b.com", 1, [start_time |-> 11000, end_time |-> 12000])
        IN /\ \A g \in 1..Len(groups) : groups[g] # <<>>
           /\ Flatten(groups) = pgSessions
           /\ \A i \in 1..(Len(pgSessions) - 1) :
                 (i \in GroupEnds(groups)) <=> PagesSplit(pgSessions[i], pgSessions[i + 1])
           /\ pgSessions = <<a, b>> => groups = <<<<a>>, <<b>>>>

\* three pages: the second exactly 120000 ms after the first and in its
\* group, the third split off by nothing but its tab
C7_Witness ==
    /\ pgGroups # <<>>
    /\ Len(pgSessions) = 3
    /\ Len(pgGroups[1]) = 2
    /\ Len(pgGroups[1][1]) = 2
    /\ pgSessions[2].start_time - pgSessions[1].end_time = 120000
    /\ pgSessions[3].domain = pgSessions[2].domain
    /\ pgSessions[3].start_time - pgSessions[2].end_time <= 120000
    /\ pgSessions[3].tab_id # pgSessions[2].tab_id

(***************************************************************************)
(* Confidence Scorer (EventSegmentationService._calculate_confidence_scores)*)
(* Scores are exact fractions [num, den] in lowest terms, den > 0.         *)
(***************************************************************************)

Abs(n) == IF n < 0 THEN 0 - n ELSE n

RECURSIVE GCD(_, _)
GCD(a, b) == IF b = 0 THEN a ELSE GCD(b, a % b)

\* the fraction n/d, d > 0, in lowest terms
Frac(n, d) ==
    LET g == GCD(Abs(n), d)
    IN [num |-> n \div g, den |-> d \div g]

FracAdd(a, b) == Frac(a.num * b.den + b.num * a.den, a.den * b.den)
FracMul(a, b) == Frac(a.num * b.num, a.den * b.den)
FracLeq(a, b) == a.num * b.den <= b.num * a.den
FracMin(a, b) == IF FracLeq(a, b) THEN a ELSE b

\* mutant of event_weight: a type event weighs 2.0
event_weight_type_as_click(event_type) ==
    CASE event_type = "page-load" -> Frac(3, 1)
      [] event_type \in {"click", "type", "copy", "paste"} -> Frac(2, 1)
      [] event_type = "highlight" -> Frac(3, 2)
      [] event_type = "tab-switch" -> Frac(1, 1)
      [] event_type = "tab-removal" -> Frac(1, 2)
      [] OTHER -> Frac(1, 1)

\* self.event_weights.get(event_type, 1.0)
event_weight(event_type) ==
    CASE event_type = "page-load" -> Frac(3, 1)
      [] event_type = "click" -> Frac(2, 1)
      [] event_type = "type" -> Frac(5, 2)
      [] event_type = "highlight" -> Frac(3, 2)
      [] event_type = "copy" -> Frac(2, 1)
      [] event_type = "paste" -> Frac(2, 1)
      [] event_type = "tab-switch" -> Frac(1, 1)
      [] event_type = "tab-removal" -> Frac(1, 2)
      [] OTHER -> Frac(1, 1)

\* type_bonuses.get(segment.segment_type, 1.0)
type_bonus(segment_type) ==
    CASE segment_type = "form_filling" -> Frac(3, 2)
      [] segment_type = "navigation" -> Frac(6, 5)
      [] segment_type = "content_interaction" -> Frac(13, 10)
      [] segment_type = "search" -> Frac(7, 5)
      [] segment_type = "mixed_activity" -> Frac(11, 10)
      [] OTHER -> Frac(1, 1)

\* min(score / 20.0, 1.0)
normalized_score(score) == FracMin(FracMul(score, Frac(1, 20)), Frac(1, 1))

\* the body of the loop of _calculate_confidence_scores for one segment
confidence_of(segment) ==
    LET F[i \in 0..Len(segment.event_types)] ==
            IF i = 0 THEN Frac(0, 1)
            ELSE FracAdd(F[i - 1], event_weight(segment.event_types[i]))
        base == F[Len(segment.event_types)]
        duration_minutes == Frac(segment.duration_ms, 60000)
        raw == FracMul(FracMul(base, FracAdd(Frac(1, 1), FracMul(duration_minutes, Frac(1, 10)))),
                       type_bonus(segment.segment_type))
    IN [base |-> base, raw |-> raw, confidence_score |-> normalized_score(raw)]

\* _calculate_confidence_scores
calculate_confidence_scores(segments) ==
    [i \in 1..Len(segments) |-> confidence_of(segments[i])]

(***************************************************************************)
(* Confidence scorer inputs                                                *)
(***************************************************************************)

MaxScoreTypes == 3

ScEventTypes ==
    {"page-load", "click", "type", "highlight", "copy", "paste", "tab-switch",
     "tab-removal", "scroll"}

ScSegmentTypes ==
    {"form_filling", "navigation", "content_interaction", "search", "mixed_activity",
     "unknown"}

ScDurations == {0 - 1200000, 0 - 600000, 0, 120000, 600000}

\* page-load and four type events in 2 minutes, classified form_filling
FormFillingSegment ==
    [event_types |-> <<"page-load", "type", "type", "type", "type">>,
     duration_ms |-> 120000, segment_type |-> "form_filling"]

ScIdle ==
    /\ scSegments = <<>>
    /\ scScores = <<>>
    /\ scDone = FALSE
    /\ scRaised = FALSE

\* no segment, one segment, or FormFillingSegment and one more
ScInit ==
    /\ \/ scSegments = <<>>
       \/ \E n \in 0..MaxScoreTypes :
             \E types \in [1..n -> ScEventTypes], d \in ScDurations, t \in ScSegmentTypes :
                LET segment == [event_types |-> types, duration_ms |-> d, segment_type |-> t]
                IN \/ scSegments = <<segment>>
                   \/ scSegments = <<FormFillingSegment, segment>>
    /\ scScores = <<>>
    /\ scDone = FALSE
    /\ scRaised = FALSE

\* _calculate_confidence_scores. The score is stored by assigning the
\* attribute confidence_score, which EventSegment does not declare: the
\* assignment is accepted or refused with ValueError by the model class, so
\* both outcomes are taken; a refusal happens at the first segment.
CalculateConfidenceScores ==
    /\ ~scDone
    /\ \/ /\ scScores' = calculate_confidence_scores(scSegments)
          /\ scRaised' = FALSE
       \/ /\ scSegments # <<>>
          /\ scScores' = <<>>
          /\ scRaised' = TRUE
    /\ scDone' = TRUE
    /\ UNCHANGED scSegments
    /\ UNCHANGED scOthers

ScNext == CalculateConfidenceScores

(***************************************************************************)
(* Confidence scorer claims                                                *)
(***************************************************************************)

\* 0 <= num/den <= 1
InUnitInterval(f) == 0 <= f.num /\ f.num <= f.den

ScoreInUnitIntervalFromMinus600000 ==
    scDone =>
        \A i \in 1..Len(scScores) :
            scSegments[i].duration_ms >= 0 - 600000 =>
                InUnitInterval(scScores[i].confidence_score)

\* twice the weight of the claim's table
TwiceWeight(event_type) ==
    CASE event_type = "page-load" -> 6
      [] event_type = "click" -> 4
      [] event_type = "type" -> 5
      [] event_type = "highlight" -> 3
      [] event_type = "copy" -> 4
      [] event_type = "paste" -> 4
      [] event_type = "tab-switch" -> 2
      [] event_type = "tab-removal" -> 1
      [] OTHER -> 2

\* ten times the segment-type bonus of the claim
TenTimesBonus(segment_type) ==
    CASE segment_type = "form_filling" -> 15
      [] segment_type = "navigation" -> 12
      [] segment_type = "content_interaction" -> 13
      [] segment_type = "search" -> 14
      [] segment_type = "mixed_activity" -> 11
      [] OTHER -> 10

\* W * (1 + duration_ms/60000 * 0.1) * B as the fraction
\* (2W * 10B * (600000 + duration_ms)) / (2 * 10 * 600000)
ClaimedRaw(segment) ==
    Frac(SumSeq([i \in 1..Len(segment.event_types) |-> TwiceWeight(segment.event_types[i])])
            * TenTimesBonus(segment.segment_type) * (600000 + segment.duration_ms),
         12000000)

\* C9: the confidence score is min(W * (1 + duration_ms/60000 * 0.1) * B / 20, 1)
\* with W the sum of the weights of the event types and B the segment-type
\* bonus; for [page-load, type, type, type, type], 2 minutes, form_filling the
\* raw value is 23.4 and the score 1.0.
C9_ScoreFormula ==
    scDone =>
        /\ \A i \in 1..Len(scScores) :
              LET raw == ClaimedRaw(scSegments[i])
              IN scScores[i].confidence_score =
                    IF raw.num >= 20 * raw.den THEN Frac(1, 1)
                    ELSE Frac(raw.num, 20 * raw.den)
        /\ \A i \in 1..Len(scScores) :
              scSegments[i] = FormFillingSegment =>
                 /\ scScores[i].base = Frac(13, 1)
                 /\ scScores[i].raw = Frac(234, 10)
                 /\ scScores[i].confidence_score = Frac(1, 1)

\* the scenario segment, together with a segment of all three kinds of
\* weight whose score stays below 1
C9_Witness ==
    /\ scDone
    /\ Len(scScores) = 2
    /\ scSegments[1] = FormFillingSegment
    /\ scSegments[2].event_types = <<"type", "tab-removal", "scroll">>
    /\ scSegments[2].segment_type = "search"
    /\ scSegments[2].duration_ms = 120000
    /\ scScores[2].confidence_score = Frac(84, 250)

(***************************************************************************)
(* Workflow Deduplicator (WorkflowDeduplicator)                            *)
(* The similarity oracle answers every call with one of: an exception      *)
(* ("raise"), empty content ("empty"), text that is no JSON ("unparsable"),*)
(* or a JSON object whose "groups" is a list of lists of indices ("json"). *)
(* The prompt file is taken to load.                                       *)
(***************************************************************************)

batch_size == 10
existing_batch_size == 25
existing_limit == 100

\* an index of an oracle answer: an integer, or a string such as "existing_<id>"
IntIdx(n) == [is_int |-> TRUE, n |-> n, s |-> ""]
StrIdx(text) == [is_int |-> FALSE, n |-> 0, s |-> text]

\* the first n elements of s, and the rest
Take(s, n) == SubSeq(s, 1, IF n < Len(s) THEN n ELSE Len(s))
Drop(s, n) == SubSeq(s, (IF n < Len(s) THEN n ELSE Len(s)) + 1, Len(s))

\* workflow.domain or "unknown"
bucket_of(workflow) ==
    IF workflow.domain \in {None, ""} THEN "unknown" ELSE workflow.domain

\* mutant of group_by_domain: one bucket for the whole batch, named after its
\* first workflow
group_by_first_domain(workflows) ==
    IF workflows = <<>> THEN <<>>
    ELSE <<[domain |-> bucket_of(workflows[1]), workflows |-> workflows]>>

\* _group_by_domain: the buckets in the order in which their domains first occur
group_by_domain(workflows) ==
    LET names[i \in 0..Len(workflows)] ==
            IF i = 0 THEN <<>>
            ELSE IF \E j \in 1..Len(names[i - 1]) : names[i - 1][j] = bucket_of(workflows[i])
                 THEN names[i - 1]
                 ELSE Append(names[i - 1], bucket_of(workflows[i]))
        domains == names[Len(workflows)]
    IN [b \in 1..Len(domains) |->
           [domain |-> domains[b],
            workflows |-> SelectIdx(workflows, {i \in 1..Len(workflows) :
                                                   bucket_of(workflows[i]) = domains[b]})]]

\* _get_existing_workflows_from_json(domain_filter, limit): the stored
\* workflows of the domain, newest first, at most limit of them
get_existing_workflows_from_json(stored, domain_filter, limit) ==
    Take(SelectIdx(stored, {i \in 1..Len(stored) : stored[i].domain = domain_filter}), limit)

\* "*" in url_pattern, on the patterns of the model
contains_star(url_pattern) == url_pattern = "https://a.com/*"

\* _calculate_workflow_quality_score, in hundredths
calculate_workflow_quality_score(workflow) ==
    10 * Len(workflow.steps)
    + 20 * SumSeq([i \in 1..Len(workflow.steps) |-> Len(workflow.steps[i].tools)])
    + workflow.summary_len
    + (IF workflow.url_pattern \notin {None, ""} /\ ~contains_star(workflow.url_pattern)
       THEN 50 ELSE 0)

\* mutant of select_best_workflow_from_group: the last workflow of the highest
\* score
select_last_best_workflow_from_group(workflows) ==
    LET F[i \in 1..Len(workflows)] ==
            IF i = 1 THEN workflows[1]
            ELSE IF calculate_workflow_quality_score(workflows[i])
                       >= calculate_workflow_quality_score(F[i - 1])
                 THEN workflows[i] ELSE F[i - 1]
    IN F[Len(workflows)]

\* _select_best_workflow_from_group: the first workflow of the highest score
select_best_workflow_from_group(workflows) ==
    LET F[i \in 1..Len(workflows)] ==
            IF i = 1 THEN workflows[1]
            ELSE IF calculate_workflow_quality_score(workflows[i])
                       > calculate_workflow_quality_score(F[i - 1])
                 THEN workflows[i] ELSE F[i - 1]
    IN F[Len(workflows)]

\* the fallback of _analyze_workflow_similarities: [[i] for i in range(n)]
all_unique_groups(n) == [i \in 1..n |-> <<IntIdx(i - 1)>>]

\* mutant of similarity_fallback: one group of all workflows
one_group_fallback(n) == <<[i \in 1..n |-> IntIdx(i - 1)]>>

\* what _analyze_workflow_similarities returns when the oracle fails
similarity_fallback(n) == all_unique_groups(n)

\* _analyze_workflow_similarities: the groups of the analysis it returns
analyze_workflow_similarities(n, response) ==
    IF response.kind \in {"raise", "empty", "unparsable", "not_object"}
    THEN similarity_fallback(n)
    ELSE response.groups

\* _process_similarity_analysis; an index that is no integer makes the
\* comparison i < len(workflows) raise TypeError
process_similarity_analysis(workflows, groups) ==
    LET F[g \in 0..Len(groups)] ==
            IF g = 0 THEN [raised |-> FALSE, workflows |-> <<>>]
            ELSE IF F[g - 1].raised THEN F[g - 1]
            ELSE IF groups[g] = <<>> THEN F[g - 1]
            ELSE IF \E j \in 1..Len(groups[g]) : ~groups[g][j].is_int
                 THEN [raised |-> TRUE, workflows |-> <<>>]
            ELSE LET members == SelectIdx(groups[g],
                                    {j \in 1..Len(groups[g]) : groups[g][j].n < Len(workflows)})
                     group_workflows == [j \in 1..Len(members) |-> workflows[members[j].n + 1]]
                 IN IF group_workflows = <<>> THEN F[g - 1]
                    ELSE [raised |-> FALSE,
                          workflows |-> Append(F[g - 1].workflows,
                              IF Len(group_workflows) = 1 THEN group_workflows[1]
                              ELSE select_best_workflow_from_group(group_workflows))]
    IN F[Len(groups)]

\* mutant of batch_fallback: no workflow is kept
keep_none_fallback(n) == <<>>

\* the fallback of _analyze_batch_deduplication: list(range(n)), 0-based
batch_fallback(n) == [i \in 1..n |-> i - 1]

\* _analyze_batch_deduplication: unique_indices, 0-based
analyze_batch_deduplication(n, response) ==
    IF response.kind \in {"raise", "empty", "unparsable", "not_object"}
    THEN batch_fallback(n)
    ELSE LET grouped_new_indices ==
                 {i \in 0..(n - 1) :
                     \E g \in 1..Len(response.groups) :
                        \E j \in 1..Len(response.groups[g]) :
                           /\ response.groups[g][j].is_int
                           /\ response.groups[g][j].n = i}
         IN SelectIdx([i \in 1..n |-> i - 1], {i \in 1..n : (i - 1) \notin grouped_new_indices})

\* the stored workflows of the bucket that _efficient_batch_deduplication compares with
domain_existing_of(stored, bucket_domain) ==
    LET existing_workflows == get_existing_workflows_from_json(stored, bucket_domain, existing_limit)
    IN SelectIdx(existing_workflows,
                 {i \in 1..Len(existing_workflows) : existing_workflows[i].domain = bucket_domain})

NoLocal == [remaining |-> <<>>, batch |-> <<>>, existing_at |-> 0, batch_unique |-> <<>>]

\* the bucket is finished with final_unique: unique_workflows.extend(final_unique)
\* and the loop of deduplicate_workflows goes on
finish_domain(final_unique, buckets, unique) ==
    [pc |-> IF Len(buckets) > 1 THEN "within" ELSE "done",
     buckets |-> Tail(buckets),
     local |-> NoLocal,
     unique |-> unique \o final_unique]

\* _efficient_batch_deduplication from its start up to the first oracle call
efficient_batch_deduplication(new_workflows, stored, buckets, unique) ==
    LET bucket_domain == buckets[1].domain
        existing_workflows == get_existing_workflows_from_json(stored, bucket_domain, existing_limit)
    IN IF new_workflows = <<>> \/ existing_workflows = <<>>
       THEN finish_domain(new_workflows, buckets, unique)
       ELSE IF domain_existing_of(stored, bucket_domain) = <<>>
       THEN finish_domain(new_workflows, buckets, unique)
       ELSE [pc |-> "compare", buckets |-> buckets, unique |-> unique,
             local |-> [remaining |-> Drop(new_workflows, batch_size),
                        batch |-> Take(new_workflows, batch_size),
                        existing_at |-> 0,
                        batch_unique |-> <<>>]]

\* mutant of compare_request: the request holds every stored workflow of the
\* domain from the current position on
compare_request_all_existing(stored, buckets, local) ==
    [new |-> local.batch,
     existing |-> Drop(domain_existing_of(stored, buckets[1].domain), local.existing_at)]

\* the request of the next call of _analyze_batch_deduplication
compare_request(stored, buckets, local) ==
    [new |-> local.batch,
     existing |-> Take(Drop(domain_existing_of(stored, buckets[1].domain), local.existing_at),
                       existing_batch_size)]

\* _compare_batch_against_existing and _efficient_batch_deduplication from the
\* answer to one call of _analyze_batch_deduplication up to the next call
after_compare(response, stored, buckets, local, unique) ==
    LET unique_indices == analyze_batch_deduplication(Len(local.batch), response)
        remaining_new == [j \in 1..Len(unique_indices) |-> local.batch[unique_indices[j] + 1]]
        next_at == local.existing_at + existing_batch_size
    IN IF next_at < Len(domain_existing_of(stored, buckets[1].domain)) /\ remaining_new # <<>>
       THEN [pc |-> "compare", buckets |-> buckets, unique |-> unique,
             local |-> [local EXCEPT !.batch = remaining_new, !.existing_at = next_at]]
       ELSE LET batch_unique == local.batch_unique \o remaining_new
            IN IF local.remaining # <<>>
               THEN [pc |-> "compare", buckets |-> buckets, unique |-> unique,
                     local |-> [remaining |-> Drop(local.remaining, batch_size),
                                batch |-> Take(local.remaining, batch_size),
                                existing_at |-> 0,
                                batch_unique |-> batch_unique]]
               ELSE finish_domain(batch_unique, buckets, unique)

(***************************************************************************)
(* Deduplicator inputs                                                     *)
(***************************************************************************)

MaxNew == 3
MaxOracleGroups == 2

ContextStep == [step_type |-> "browser_context", tools |-> <<>>]
ToolStep(tools) == [step_type |-> "tool", tools |-> tools]

NewWorkflow(id, d, summary, summary_len, steps, url_pattern) ==
    [id |-> id, domain |-> d, summary |-> summary, summary_len |-> summary_len,
     steps |-> steps, url_pattern |-> url_pattern]

\* the new workflows a call is made of, the buckets interleaved: 1 and 2 are
\* equal but for their id
NewPool ==
    <<NewWorkflow(1, "a.com", "Fill cart", 9, <<ContextStep, ToolStep(<<"sheets_append">>)>>,
                  "https://a.com/cart"),
      NewWorkflow(4, None, "Search", 6, <<ContextStep, ToolStep(<<"web_search">>)>>, None),
      NewWorkflow(2, "a.com", "Fill cart", 9, <<ContextStep, ToolStep(<<"sheets_append">>)>>,
                  "https://a.com/cart"),
      NewWorkflow(3, "a.com", "Fill cart and mail it", 21,
                  <<ContextStep, ToolStep(<<"sheets_append", "gmail_send">>)>>,
                  "https://a.com/*"),
      NewWorkflow(5, "", "Search", 6, <<ContextStep, ToolStep(<<"web_search">>)>>, "")>>

StoredWorkflow(id, d) ==
    [id |-> id, summary |-> "Export orders", domain |-> d,
     url_pattern |-> "https://a.com/orders", step_count |-> 2, step_types |-> <<"browser_context", "tool">>]

\* the workflows a store is made of
StoredPool == <<StoredWorkflow("s1", "a.com"), StoredWorkflow("s2", "unknown")>>

\* the lists of at most n elements of pool, in the order of pool
ListsOf(pool, n) ==
    {SelectIdx(pool, K) : K \in {J \in SUBSET (1..Len(pool)) : Cardinality(J) <= n}}

\* the indices of a request, put into at most MaxOracleGroups groups by labels;
\* an index of label 0 is in no group
GroupsByLabel(indices, labels, count) ==
    LET all == [k \in 1..count |->
                   SelectIdx(indices, {j \in 1..Len(indices) : labels[j] = k})]
    IN SelectIdx(all, {k \in 1..count : all[k] # <<>>})

\* the partition of the indices into singleton groups
DisjointPartition(indices) == [j \in 1..Len(indices) |-> <<indices[j]>>]

\* groups that break the contract of the answer: an index twice, an index
\* out of range, an index that is a string the request did not hold
MalformedGroups(indices) ==
    {Append(DisjointPartition(indices), <<indices[1]>>),
     Append(DisjointPartition(indices), <<IntIdx(Len(indices))>>),
     Append(DisjointPartition(indices), <<StrIdx("0")>>)}

\* what the oracle may answer to a request with these indices: an exception,
\* empty content, text that is no JSON, JSON that is no object, or a JSON
\* object; an object without "groups" reads as one with no group
OracleResponses(indices) ==
    {[kind |-> k, groups |-> <<>>] : k \in {"raise", "empty", "unparsable", "not_object"}}
    \cup {[kind |-> "json", groups |-> GroupsByLabel(indices, labels, MaxOracleGroups)] :
             labels \in [1..Len(indices) -> 0..MaxOracleGroups]}
    \cup {[kind |-> "json", groups |-> DisjointPartition(indices)]}
    \cup {[kind |-> "json", groups |-> g] : g \in MalformedGroups(indices)}

\* the answers to a request of new workflows only: also one group of all
\* indices, listed in any order
WithinResponses(indices) ==
    OracleResponses(indices)
    \cup {[kind |-> "json", groups |-> <<order>>] : order \in Perms(indices)}

\* the record of an oracle call: the request (its bucket, the ids of its new
\* and stored workflows) and the answer (its kind, its groups, and whether the
\* groups are a partition of the request's indices, a partition into
\* singletons, or put a new and a stored workflow into one group)
CallRecord(call, bucket_domain, new, existing, indices, response) ==
    [call |-> call,
     domain |-> bucket_domain,
     new |-> [i \in 1..Len(new) |-> new[i].id],
     existing |-> [i \in 1..Len(existing) |-> existing[i].id],
     kind |-> response.kind,
     failed |-> response.kind \in {"raise", "empty", "unparsable"},
     groups |-> response.groups,
     partition |->
         /\ response.kind = "json"
         /\ \A j \in 1..Len(indices) :
               Cardinality({gk \in (1..Len(response.groups)) \X (1..Len(indices)) :
                               /\ gk[2] <= Len(response.groups[gk[1]])
                               /\ response.groups[gk[1]][gk[2]] = indices[j]}) = 1
         /\ \A g \in 1..Len(response.groups) :
               /\ response.groups[g] # <<>>
               /\ \A k \in 1..Len(response.groups[g]) :
                     \E j \in 1..Len(indices) : response.groups[g][k] = indices[j],
     disjoint |->
         /\ response.kind = "json"
         /\ Len(response.groups) = Len(indices)
         /\ \A g \in 1..Len(response.groups) : Len(response.groups[g]) = 1
         /\ \A j \in 1..Len(indices) :
               \E g \in 1..Len(response.groups) : response.groups[g] = <<indices[j]>>,
     mixed |->
         /\ response.kind = "json"
         /\ \E g \in 1..Len(response.groups) :
               /\ \E k \in 1..Len(response.groups[g]) : response.groups[g][k].is_int
               /\ \E k \in 1..Len(response.groups[g]) : ~response.groups[g][k].is_int]

\* the calls made so far and one more; the groups of an answer are kept for
\* the latest call only
RecordCall(calls, record) ==
    Append([c \in 1..Len(calls) |-> [calls[c] EXCEPT !.groups = <<>>]], record)

DdIdle ==
    /\ ddWorkflows = <<>>
    /\ ddStored = <<>>
    /\ ddPc = "idle"
    /\ ddBuckets = <<>>
    /\ ddLocal = NoLocal
    /\ ddUnique = <<>>
    /\ ddCalls = <<>>

DdInit ==
    /\ ddWorkflows \in ListsOf(NewPool, MaxNew)
    /\ ddStored \in ListsOf(StoredPool, Len(StoredPool))
    /\ ddPc = "start"
    /\ ddBuckets = <<>>
    /\ ddLocal = NoLocal
    /\ ddUnique = <<>>
    /\ ddCalls = <<>>

DdGoto(next) ==
    /\ ddPc' = next.pc
    /\ ddBuckets' = next.buckets
    /\ ddLocal' = next.local
    /\ ddUnique' = next.unique

\* deduplicate_workflows up to the first bucket
StartDeduplication ==
    /\ ddPc = "start"
    /\ IF ddWorkflows = <<>>
       THEN /\ ddPc' = "done"
            /\ UNCHANGED <<ddBuckets, ddLocal, ddUnique>>
       ELSE /\ ddPc' = "within"
            /\ ddBuckets' = group_by_domain(ddWorkflows)
            /\ UNCHANGED <<ddLocal, ddUnique>>
    /\ UNCHANGED <<ddWorkflows, ddStored, ddCalls>>
    /\ UNCHANGED ddOthers

\* _deduplicate_within_domain_llm for a bucket of one workflow: no oracle call
DeduplicateSingleton ==
    /\ ddPc = "within"
    /\ Len(ddBuckets[1].workflows) <= 1
    /\ DdGoto(efficient_batch_deduplication(ddBuckets[1].workflows, ddStored, ddBuckets, ddUnique))
    /\ UNCHANGED <<ddWorkflows, ddStored, ddCalls>>
    /\ UNCHANGED ddOthers

\* _deduplicate_within_domain_llm for a bucket of several workflows, with the
\* answer of the oracle
DeduplicateWithinDomain ==
    /\ ddPc = "within"
    /\ Len(ddBuckets[1].workflows) > 1
    /\ LET workflows == ddBuckets[1].workflows
           indices == [i \in 1..Len(workflows) |-> IntIdx(i - 1)]
       IN \E response \in WithinResponses(indices) :
             LET analysis == analyze_workflow_similarities(Len(workflows), response)
                 processed == process_similarity_analysis(workflows, analysis)
             IN /\ ddCalls' = RecordCall(ddCalls,
                       CallRecord("within", ddBuckets[1].domain, workflows, <<>>, indices,
                                  response))
                /\ IF processed.raised
                   THEN /\ ddPc' = "raised"
                        /\ UNCHANGED <<ddBuckets, ddLocal, ddUnique>>
                   ELSE DdGoto(efficient_batch_deduplication(processed.workflows, ddStored,
                                                              ddBuckets, ddUnique))
    /\ UNCHANGED <<ddWorkflows, ddStored>>
    /\ UNCHANGED ddOthers

\* one call of _analyze_batch_deduplication, with the answer of the oracle
CompareBatchAgainstExisting ==
    /\ ddPc = "compare"
    /\ LET request == compare_request(ddStored, ddBuckets, ddLocal)
           indices == [i \in 1..Len(request.new) |-> IntIdx(i - 1)]
                      \o [i \in 1..Len(request.existing) |-> StrIdx(request.existing[i].id)]
       IN \E response \in OracleResponses(indices) :
             /\ ddCalls' = RecordCall(ddCalls,
                    CallRecord("compare", ddBuckets[1].domain, request.new, request.existing,
                               indices, response))
             /\ DdGoto(after_compare(response, ddStored, ddBuckets, ddLocal, ddUnique))
    /\ UNCHANGED <<ddWorkflows, ddStored>>
    /\ UNCHANGED ddOthers

DdNext ==
    \/ StartDeduplication
    \/ DeduplicateSingleton
    \/ DeduplicateWithinDomain
    \/ CompareBatchAgainstExisting

(***************************************************************************)
(* Deduplicator claims                                                     *)
(***************************************************************************)

\* every oracle call made so far failed or answered with unparsable text
EveryCallFailed == \A c \in 1..Len(ddCalls) : ddCalls[c].failed

\* C10: if every oracle call made during deduplicate_workflows fails or
\* answers with text that cannot be parsed, no exception propagates and the
\* list returned holds every input workflow exactly once, with or without
\* stored workflows of its domain.
C10_FallbackKeepsAll ==
    EveryCallFailed =>
        /\ ddPc # "raised"
        /\ ddPc = "done" =>
              /\ Len(ddUnique) = Len(ddWorkflows)
              /\ \A i \in 1..Len(ddWorkflows) :
                    Cardinality({j \in 1..Len(ddUnique) : ddUnique[j] = ddWorkflows[i]}) = 1

\* a finished run whose two calls both failed: a bucket of two workflows
\* with a stored workflow of its domain, and a bucket with none
C10_Witness ==
    /\ ddPc = "done"
    /\ EveryCallFailed
    /\ Len(ddCalls) = 2
    /\ ddStored # <<>>
    /\ \E c \in 1..Len(ddCalls) : ddCalls[c].call = "within"
    /\ \E c \in 1..Len(ddCalls) : ddCalls[c].call = "compare" /\ Len(ddCalls[c].new) = 2
    /\ Len(ddWorkflows) = 3
    /\ \E i \in 1..3 : bucket_of(ddWorkflows[i]) = "unknown"
    /\ \A i \in 1..Len(ddStored) : ddStored[i].domain = "a.com"

\* two new workflows identical in domain, summary and steps
TwoIdenticalWorkflows == <<NewPool[1], NewPool[3]>>

\* every answer so far is a correct one: a partition of the request's indices
\* that puts the two identical workflows into one group and no new workflow
\* into a group with a stored one
EveryAnswerCorrect ==
    \A c \in 1..Len(ddCalls) :
        /\ ddCalls[c].partition
        /\ ddCalls[c].call = "within" => ~ddCalls[c].disjoint
        /\ ddCalls[c].call = "compare" => ~ddCalls[c].mixed

\* C11: for a batch of two new workflows identical in domain, summary and
\* steps, when the oracle answers every call correctly, deduplicate_workflows
\* returns exactly one of the two.
C11_OneOfTwoIdentical ==
    (ddWorkflows = TwoIdenticalWorkflows /\ EveryAnswerCorrect) =>
        /\ ddPc # "raised"
        /\ ddPc = "done" =>
              /\ Len(ddUnique) = 1
              /\ ddUnique[1] \in {NewPool[1], NewPool[3]}

\* where C11 does hold: with no stored workflow of the domain one of the two
\* is returned
OneOfTwoIdenticalWithoutStored ==
    (/\ ddWorkflows = TwoIdenticalWorkflows
     /\ EveryAnswerCorrect
     /\ \A i \in 1..Len(ddStored) : ddStored[i].domain # "a.com") =>
        /\ ddPc # "raised"
        /\ ddPc = "done" =>
              /\ Len(ddUnique) = 1
              /\ ddUnique[1] \in {NewPool[1], NewPool[3]}

\* every oracle call made so far answered with the fully-disjoint partition:
\* one singleton group per index of the request
EveryCallDisjoint == \A c \in 1..Len(ddCalls) : ddCalls[c].disjoint

\* the workflows of the batch bucket by bucket, in the order the buckets are
\* processed
BucketOrder(workflows) ==
    LET buckets == group_by_domain(workflows)
        flat[b \in 0..Len(buckets)] ==
            IF b = 0 THEN <<>> ELSE flat[b - 1] \o buckets[b].workflows
    IN flat[Len(buckets)]

\* two lists hold the same workflows the same number of times
SameWorkflows(a, b) ==
    /\ Len(a) = Len(b)
    /\ \A i \in 1..Len(a) :
          Cardinality({j \in 1..Len(a) : a[j] = a[i]}) =
          Cardinality({j \in 1..Len(b) : b[j] = a[i]})

\* what a run returns when every oracle call is unavailable: the whole batch
UnavailableResultIsBatch ==
    (EveryCallFailed /\ ddPc = "done") => ddUnique = BucketOrder(ddWorkflows)

\* C12: a run in which every oracle call answers with the fully-disjoint
\* partition raises nothing and returns the workflows that the run with every
\* call unavailable returns, the whole batch, in any order.
C12_DisjointEqualsUnavailable ==
    EveryCallDisjoint =>
        /\ ddPc # "raised"
        /\ ddPc = "done" => SameWorkflows(ddUnique, BucketOrder(ddWorkflows))

\* the answer recorded in record puts the new workflow of 0-based index i
\* into a group that also holds a stored workflow of the request
GroupedWithStored(record, i) ==
    \E g \in 1..Len(record.groups) :
       /\ \E k \in 1..Len(record.groups[g]) : record.groups[g][k] = IntIdx(i)
       /\ \E k \in 1..Len(record.groups[g]) :
             \E e \in 1..Len(record.existing) :
                record.groups[g][k] = StrIdx(record.existing[e])

\* the workflows of the compared batch that are left after one comparison
\* step: the batch of the next call for the same new workflows, or what the
\* step appended to batch_unique or to the result
KeptByComparison ==
    IF ddPc' = "compare" /\ ddLocal'.existing_at > ddLocal.existing_at
    THEN ddLocal'.batch
    ELSE IF ddPc' = "compare"
    THEN Drop(ddLocal'.batch_unique, Len(ddLocal.batch_unique))
    ELSE Drop(ddUnique', Len(ddUnique) + Len(ddLocal.batch_unique))

\* the positions of the compared batch that the answer recorded in record
\* puts into a group with a stored workflow
PositionsGroupedWithStored(record) ==
    {j \in 1..Len(record.new) : GroupedWithStored(record, j - 1)}

\* C13: in the comparison against stored workflows, a new workflow that the
\* answer places in a group with a stored workflow is dropped, and a new
\* workflow that the answer places in no group containing a stored workflow
\* is kept.
C13_DroppedIffGroupedWithStored ==
    [][(ddPc = "compare" /\ ddCalls' # ddCalls /\ ddCalls'[Len(ddCalls')].kind = "json") =>
          KeptByComparison =
             SelectIdx(ddLocal.batch,
                       (1..Len(ddLocal.batch))
                          \ PositionsGroupedWithStored(ddCalls'[Len(ddCalls')]))]_vars

\* the half of C13 that holds: a new workflow grouped with a stored one is
\* dropped, so what is kept is a sublist of the workflows not grouped with one
GroupedWithStoredIsDropped ==
    [][(ddPc = "compare" /\ ddCalls' # ddCalls /\ ddCalls'[Len(ddCalls')].kind = "json") =>
          \E K \in SUBSET ((1..Len(ddLocal.batch))
                              \ PositionsGroupedWithStored(ddCalls'[Len(ddCalls')])) :
             KeptByComparison = SelectIdx(ddLocal.batch, K)]_vars

\* the quality score of a workflow in hundredths: 0.1 per step, 0.2 per tool
\* reference, 0.01 per character of the summary, 0.5 for a url_pattern that is
\* set and has no '*'
QualityScore(workflow) ==
    10 * Len(workflow.steps)
    + 20 * Cardinality({st \in (1..Len(workflow.steps)) \X (1..2) :
                           st[2] <= Len(workflow.steps[st[1]].tools)})
    + workflow.summary_len
    + (IF workflow.url_pattern \in {None, "", "https://a.com/*"} THEN 0 ELSE 50)

\* workflow is the member of the highest quality score of the group, the first
\* listed of those
IsRepresentative(workflow, group_workflows) ==
    \E j \in 1..Len(group_workflows) :
       /\ group_workflows[j] = workflow
       /\ \A k \in 1..Len(group_workflows) :
             QualityScore(group_workflows[k]) <= QualityScore(workflow)
       /\ \A k \in 1..(j - 1) :
             QualityScore(group_workflows[k]) < QualityScore(workflow)

\* the members of a group of an answer that denote workflows of the request,
\* as listed
GroupWorkflows(workflows, group) ==
    LET members == SelectIdx(group, {j \in 1..Len(group) :
                                        group[j].is_int /\ group[j].n < Len(workflows)})
    IN [j \in 1..Len(members) |-> workflows[members[j].n + 1]]

\* every group of the answer lists integers only and at least one workflow of
\* the request
GroupsUsable(workflows, groups) ==
    \A g \in 1..Len(groups) :
       /\ \A j \in 1..Len(groups[g]) : groups[g][j].is_int
       /\ GroupWorkflows(workflows, groups[g]) # <<>>

\* what the within-domain step hands on: the batch of the comparison that
\* follows, or what the step appended to the result
KeptWithinDomain ==
    IF ddPc' = "compare" THEN ddLocal'.batch \o ddLocal'.remaining
    ELSE Drop(ddUnique', Len(ddUnique))

ContractViolated(record) ==
    \/ record.kind = "not_object"
    \/ record.kind = "json" /\ ~record.partition

\* C15: when an answer parses as JSON and breaks the contract, the call
\* raises nothing and keeps every new workflow of its request exactly once,
\* as the all-unique fallback does.
C15_MalformedAnswerKeepsAll ==
    [][(ddCalls' # ddCalls /\ ContractViolated(ddCalls'[Len(ddCalls')])) =>
          /\ ddPc' # "raised"
          /\ ddPc = "within" => KeptWithinDomain = ddBuckets[1].workflows
          /\ ddPc = "compare" => KeptByComparison = ddLocal.batch]_vars

\* where C15 does hold: an answer that is JSON and no object
NotObjectKeepsAll ==
    [][(ddCalls' # ddCalls /\ ddCalls'[Len(ddCalls')].kind = "not_object") =>
          /\ ddPc' # "raised"
          /\ ddPc = "within" => KeptWithinDomain = ddBuckets[1].workflows
          /\ ddPc = "compare" => KeptByComparison = ddLocal.batch]_vars

\* the bucket of a workflow: its domain, 'unknown' for a null or empty one
DomainBucket(workflow) ==
    IF workflow.domain = None \/ workflow.domain = "" THEN "unknown" ELSE workflow.domain

\* the buckets being processed hold workflows of their own domain only, and
\* every oracle request so far holds new and stored workflows of one bucket
RequestsWithinOneBucket ==
    /\ \A b \in 1..Len(ddBuckets) :
          /\ \A j \in 1..Len(ddBuckets[b].workflows) :
                DomainBucket(ddBuckets[b].workflows[j]) = ddBuckets[b].domain
          /\ \A b2 \in 1..Len(ddBuckets) : b2 # b => ddBuckets[b2].domain # ddBuckets[b].domain
    /\ \A c \in 1..Len(ddCalls) :
          /\ \A j \in 1..Len(ddCalls[c].new) :
                \E i \in 1..Len(ddWorkflows) :
                   /\ ddWorkflows[i].id = ddCalls[c].new[j]
                   /\ DomainBucket(ddWorkflows[i]) = ddCalls[c].domain
          /\ \A j \in 1..Len(ddCalls[c].existing) :
                \E i \in 1..Len(ddStored) :
                   /\ ddStored[i].id = ddCalls[c].existing[j]
                   /\ ddStored[i].domain = ddCalls[c].domain

\* the first step sorts every workflow of the batch into the bucket of its
\* domain, once
BatchPartitioned ==
    ddPc = "start" /\ ddPc' # "start" =>
       \A i \in 1..Len(ddWorkflows) :
          Cardinality({bj \in (1..Len(ddBuckets')) \X (1..Len(ddWorkflows)) :
                          /\ bj[2] <= Len(ddBuckets'[bj[1]].workflows)
                          /\ ddBuckets'[bj[1]].workflows[bj[2]] = ddWorkflows[i]
                          /\ ddBuckets'[bj[1]].domain = DomainBucket(ddWorkflows[i])}) = 1

\* a step on a bucket leaves what earlier buckets returned and what later
\* buckets hold as it is, and returns workflows of its own bucket only
BucketsApart ==
    ddPc \in {"within", "compare"} =>
       /\ Len(ddUnique') >= Len(ddUnique)
       /\ Take(ddUnique', Len(ddUnique)) = ddUnique
       /\ \A j \in (Len(ddUnique) + 1)..Len(ddUnique') :
             DomainBucket(ddUnique'[j]) = ddBuckets[1].domain
       /\ ddPc' # "raised" => ddBuckets' \in {ddBuckets, Tail(ddBuckets)}

\* C19: the batch is partitioned by domain, a null or empty domain counting
\* as 'unknown'; every oracle request holds new and stored workflows of one
\* bucket only; and a step on one bucket neither removes nor changes the
\* workflows of another.
C19_BucketsNeverMix ==
    /\ []RequestsWithinOneBucket
    /\ [][BatchPartitioned /\ BucketsApart]_vars

\* a finished run over two buckets, one of them 'unknown' with a workflow of
\* null domain and one of empty domain, each compared with a stored workflow
\* of its own domain
C19_Witness ==
    /\ ddPc = "done"
    /\ \E i \in 1..Len(ddWorkflows) : ddWorkflows[i].domain = None
    /\ \E i \in 1..Len(ddWorkflows) : ddWorkflows[i].domain = ""
    /\ \E c \in 1..Len(ddCalls) :
          /\ ddCalls[c].call = "compare"
          /\ ddCalls[c].domain = "unknown"
          /\ Len(ddCalls[c].new) = 2
          /\ ddCalls[c].existing = <<"s2">>
    /\ \E c \in 1..Len(ddCalls) :
          /\ ddCalls[c].call = "compare"
          /\ ddCalls[c].domain = "a.com"
          /\ ddCalls[c].existing = <<"s1">>
    /\ ddUnique # <<>>

(***************************************************************************)
(* Workflow Validator (WorkflowValidator)                                  *)
(***************************************************************************)

valid_step_types == {"browser_context", "tool"}
min_workflow_steps == 2

\* `step.tools or []`
tools_or_empty(step) == IF step.tools_is_none THEN <<>> ELSE step.tools

\* mutant of has_valid_steps: the type of the first step is not looked at
has_valid_steps_any_first(steps) ==
    /\ ~(Len(steps) < min_workflow_steps)
    /\ \A i \in 1..Len(steps) : steps[i].step_type \in valid_step_types

\* _has_valid_steps
has_valid_steps(steps) ==
    /\ ~(Len(steps) < min_workflow_steps)
    /\ steps[1].step_type = "browser_context"
    /\ \A i \in 1..Len(steps) : steps[i].step_type \in valid_step_types

\* the first tool of a tool step that the catalog does not hold, in the order
\* of the two loops of validate_workflow; <<>> when there is none
first_unavailable_tool(steps, available_tool_names) ==
    LET missing(step) ==
            SelectIdx(tools_or_empty(step),
                      {j \in 1..Len(tools_or_empty(step)) :
                          tools_or_empty(step)[j] \notin available_tool_names})
        F[i \in 0..Len(steps)] ==
            IF i = 0 THEN <<>>
            ELSE IF F[i - 1] # <<>> THEN F[i - 1]
            ELSE IF steps[i].step_type = "tool" /\ missing(steps[i]) # <<>>
                 THEN <<missing(steps[i])[1]>>
                 ELSE <<>>
    IN F[Len(steps)]

\* validate_workflow: (is_valid, error_message); the message is the list of
\* the pieces of text it is put together from, <<>> for ''
validate_workflow(steps, available_tool_names) ==
    LET unavailable == first_unavailable_tool(steps, available_tool_names)
    IN IF unavailable # <<>>
       THEN [is_valid |-> FALSE,
             error_message |-> <<"Tool '", unavailable[1], "' not available">>]
       ELSE IF ~has_valid_steps(steps)
       THEN [is_valid |-> FALSE, error_message |-> <<"Invalid workflow steps">>]
       ELSE [is_valid |-> TRUE, error_message |-> <<>>]

(***************************************************************************)
(* Validator inputs                                                        *)
(***************************************************************************)

MaxSteps == 3

\* a step with a list of tool names, and a step whose tools are None
WvStep(step_type, tools) ==
    [step_type |-> step_type, tools_is_none |-> FALSE, tools |-> tools]
WvStepNoTools(step_type) ==
    [step_type |-> step_type, tools_is_none |-> TRUE, tools |-> <<>>]

\* the steps a workflow is made of: WorkflowStepSchema admits the two step
\* types, and tools of None or a list of names on either
WvSteps ==
    {WvStepNoTools("browser_context"),
     WvStep("browser_context", <<"ghost_tool">>),
     WvStepNoTools("tool"),
     WvStep("tool", <<>>),
     WvStep("tool", <<"sheets_append">>),
     WvStep("tool", <<"web_search", "ghost_tool">>)}

\* the tool names a catalog file may define
WvToolNames == {"sheets_append", "web_search"}

WvIdle ==
    /\ wvSteps = <<>>
    /\ wvCatalog = {}
    /\ wvResult = <<>>

WvInit ==
    /\ \E n \in 0..MaxSteps : wvSteps \in [1..n -> WvSteps]
    /\ wvCatalog \in SUBSET WvToolNames
    /\ wvResult = <<>>

\* one call of validate_workflow with the catalog ToolLoader.load_all_tools returns
ValidateWorkflow ==
    /\ wvResult = <<>>
    /\ wvResult' = <<validate_workflow(wvSteps, wvCatalog)>>
    /\ UNCHANGED <<wvSteps, wvCatalog>>
    /\ UNCHANGED wvOthers

WvNext == ValidateWorkflow

(***************************************************************************)
(* Validator claims                                                        *)
(***************************************************************************)

\* the workflow has fewer than 2 steps, or a first step that is no
\* browser_context step, or a tool step naming a tool the catalog lacks
ValidationFails(steps, catalog) ==
    \/ Len(steps) < 2
    \/ steps[1].step_type # "browser_context"
    \/ \E i \in 1..Len(steps) :
          /\ steps[i].step_type = "tool"
          /\ ~steps[i].tools_is_none
          /\ \E j \in 1..Len(steps[i].tools) : steps[i].tools[j] \notin catalog

\* the text is not ''
NonEmptyText(pieces) == \E k \in 1..Len(pieces) : pieces[k] # ""

WorkflowRow(workflow_id) == [table |-> "workflows", workflow_id |-> workflow_id, step_order |-> 0]
StepRow(workflow_id, i) == [table |-> "workflow_steps", workflow_id |-> workflow_id, step_order |-> i]

NoFault == [kind |-> "none", step |-> 0]

\* the body of the loop of save_workflows for one workflow: the rows it adds
\* to the session and whether its id is appended to saved_ids.  An exception
\* in Workflow(...) or db.add(db_workflow) leaves no row; an exception at
\* step number fault.step leaves the workflow row and the steps before it in
\* the session; either way the except clause goes on with the next workflow
save_one_workflow(workflow_id, step_count, fault) ==
    IF fault.kind = "workflow"
    THEN [added |-> {}, saved |-> FALSE]
    ELSE IF fault.kind = "step" /\ fault.step <= step_count
    THEN [added |-> {WorkflowRow(workflow_id)}
                       \cup {StepRow(workflow_id, i - 1) : i \in 1..(fault.step - 1)},
          saved |-> FALSE]
    ELSE [added |-> {WorkflowRow(workflow_id)}
                       \cup {StepRow(workflow_id, i - 1) : i \in 1..step_count},
          saved |-> TRUE]

\* db.commit() flushes every pending row in one transaction and raises when
\* the database rejects one of them
commit_fails(pending, faults) ==
    \E row \in pending : faults[row.workflow_id].kind = "commit"

\* the end of save_workflows: commit, or rollback and saved_ids = []
commit_outcome(pending, faults, store, saved_ids) ==
    IF commit_fails(pending, faults)
    THEN [store |-> store, saved_ids |-> <<>>]
    ELSE [store |-> store \cup pending, saved_ids |-> saved_ids]

(***************************************************************************)
(* Persistence inputs                                                      *)
(***************************************************************************)

MaxSave == 3
SaveStepCount == 2

\* the errors the writes of one workflow can meet
SvFaults ==
    {NoFault, [kind |-> "workflow", step |-> 0], [kind |-> "commit", step |-> 0]}
    \cup {[kind |-> "step", step |-> k] : k \in 1..SaveStepCount}

SvIdle ==
    /\ svWorkflows = <<>>
    /\ svFaults = <<>>
    /\ svPc = "idle"
    /\ svNext = 0
    /\ svPending = {}
    /\ svStore = {}
    /\ svSaved = <<>>

SvInit ==
    /\ \E n \in 0..MaxSave :
          /\ svWorkflows = [i \in 1..n |-> SaveStepCount]
          /\ svFaults \in [1..n -> SvFaults]
    /\ svPc = "loop"
    /\ svNext = 1
    /\ svPending = {}
    /\ svStore = {}
    /\ svSaved = <<>>

\* one turn of the loop over workflows
SaveOneWorkflow ==
    /\ svPc = "loop"
    /\ svNext <= Len(svWorkflows)
    /\ LET r == save_one_workflow(svNext, svWorkflows[svNext], svFaults[svNext])
       IN /\ svPending' = svPending \cup r.added
          /\ svSaved' = IF r.saved THEN Append(svSaved, svNext) ELSE svSaved
    /\ svNext' = svNext + 1
    /\ UNCHANGED <<svWorkflows, svFaults, svPc, svStore>>
    /\ UNCHANGED svOthers

\* the commit after the loop, and the return
CommitWorkflows ==
    /\ svPc = "loop"
    /\ svNext > Len(svWorkflows)
    /\ LET r == commit_outcome(svPending, svFaults, svStore, svSaved)
       IN /\ svStore' = r.store
          /\ svSaved' = r.saved_ids
    /\ svPending' = {}
    /\ svPc' = "done"
    /\ UNCHANGED <<svWorkflows, svFaults, svNext>>
    /\ UNCHANGED svOthers

SvNext == SaveOneWorkflow \/ CommitWorkflows

(***************************************************************************)
(* Persistence claims                                                      *)
(***************************************************************************)

\* the workflows of the batch a write error hits, those with a row in the
\* store and those returned
SvAffected == {i \in 1..Len(svWorkflows) : svFaults[i].kind # "none"}
SvPersisted == {i \in 1..Len(svWorkflows) : \E row \in svStore : row.workflow_id = i}
SvReturned == {svSaved[j] : j \in 1..Len(svSaved)}

\* C17: when a write error hits some workflows of the batch, the ids
\* returned are those of the workflows persisted, the workflows hit are in
\* neither the result nor the store, and the other workflows of the batch are
\* persisted and returned.
C17_ReportsActualSuccesses ==
    (svPc = "done" /\ SvAffected # {}) =>
        /\ SvReturned = SvPersisted
        /\ SvAffected \cap (SvReturned \cup SvPersisted) = {}
        /\ (1..Len(svWorkflows)) \ SvAffected \subseteq (SvReturned \cap SvPersisted)

\* what does hold: every id returned is the id of a workflow persisted with
\* all its steps, and without an error the whole batch is persisted and
\* returned
ReturnedArePersisted ==
    svPc = "done" =>
        /\ \A i \in SvReturned :
              /\ WorkflowRow(i) \in svStore
              /\ \A k \in 1..svWorkflows[i] : StepRow(i, k - 1) \in svStore
        /\ SvAffected = {} => svSaved = [i \in 1..Len(svWorkflows) |-> i]

(***************************************************************************)
(* Candidate builder (EventSegmentationService._process_page_sessions and  *)
(* IntentClassificationService)                                            *)
(***************************************************************************)

min_segment_duration_ms == 2000
max_segment_duration_ms == 600000

\* a str the classifier returns, with its characters
Intent(text, chars) == [text |-> text, chars |-> chars]
UnknownIntent == Intent("unknown", <<"u", "n", "k", "n", "o", "w", "n">>)

\* _classify_intent_with_llm: 'unknown' when the call raises or the content
\* is empty, else the content stripped and lowered
classify_intent_with_llm(response) ==
    IF response.kind \in {"raise", "empty"} THEN UnknownIntent ELSE response.intent

\* classify_segment_intent(segment): 'unknown' when the LLM is not available;
\* else _extract_page_content reads segment.events, and any exception ends in
\* 'unknown'.  has_events tells whether the argument has an attribute events
classify_segment_intent(llm_available, has_events, response) ==
    IF ~llm_available THEN UnknownIntent
    ELSE IF ~has_events THEN UnknownIntent
    ELSE classify_intent_with_llm(response)

\* `segment_type, tool_categories = value` for a str value: its two
\* characters, or ValueError when it has not exactly two
unpack_pair(value) ==
    IF Len(value.chars) = 2
    THEN [raised |-> FALSE, segment_type |-> value.chars[1], tool_categories |-> value.chars[2]]
    ELSE [raised |-> TRUE, segment_type |-> "", tool_categories |-> ""]

\* _process_page_segment: None (<<>>), a PageSegment, or an exception.  The
\* classifier is handed the list of page sessions, which has no attribute
\* events.  A str unpacked into two characters makes tool_categories a str,
\* which PageSegment(...) rejects with a ValidationError
process_page_segment(page_segment, llm_available, response) ==
    LET duration_ms == page_segment[Len(page_segment)].end_time - page_segment[1].start_time
        intent == classify_segment_intent(llm_available, FALSE, response)
        pair == unpack_pair(intent)
    IN IF page_segment = <<>>
       THEN [raised |-> FALSE, segment |-> <<>>, calls |-> <<>>]
       ELSE IF duration_ms < min_segment_duration_ms \/ duration_ms > max_segment_duration_ms
       THEN [raised |-> FALSE, segment |-> <<>>, calls |-> <<>>]
       ELSE IF pair.raised
       THEN [raised |-> TRUE, segment |-> <<>>, calls |-> <<intent>>]
       ELSE IF pair.segment_type = "unknown"
       THEN [raised |-> FALSE, segment |-> <<>>, calls |-> <<intent>>]
       ELSE [raised |-> TRUE, segment |-> <<>>, calls |-> <<intent>>]

(***************************************************************************)
(* Candidate builder inputs                                                *)
(***************************************************************************)

\* the page sessions of the batches: one tab, two domains
PsSessions == {SgSession(d, 1, t) : d \in {"a.com", "b.com"}, t \in SgTimes}

\* what the LLM answers to a classification request
ClassifierResponses ==
    {[kind |-> "raise", intent |-> UnknownIntent],
     [kind |-> "empty", intent |-> UnknownIntent],
     [kind |-> "text", intent |-> UnknownIntent],
     [kind |-> "text", intent |-> Intent("form_filling",
                                         <<"f", "o", "r", "m", "_", "f", "i", "l", "l", "i", "n", "g">>)]}

PsIdle ==
    /\ psSessions = <<>>
    /\ psAvailable = FALSE
    /\ psPc = "idle"
    /\ psGroups = <<>>
    /\ psCandidates = <<>>
    /\ psCalls = <<>>

\* the page sessions come from the page aggregator, in the order of time
PsInit ==
    /\ \E n \in 0..MaxPages :
          /\ psSessions \in [1..n -> PsSessions]
          /\ \A i \in 1..(n - 1) : psSessions[i].end_time < psSessions[i + 1].start_time
    /\ psAvailable \in BOOLEAN
    /\ psPc = "start"
    /\ psGroups = <<>>
    /\ psCandidates = <<>>
    /\ psCalls = <<>>

\* _process_page_sessions up to the loop over the page groups
ProcessPageSessions ==
    /\ psPc = "start"
    /\ IF psSessions = <<>>
       THEN /\ psPc' = "done"
            /\ psGroups' = <<>>
       ELSE /\ psPc' = "loop"
            /\ psGroups' = find_page_breakpoints(psSessions)
    /\ UNCHANGED <<psSessions, psAvailable, psCandidates, psCalls>>
    /\ UNCHANGED psOthers

\* one turn of the loop: _process_page_segment on the next page group, with
\* the answer the LLM would give
ProcessPageSegment ==
    /\ psPc = "loop"
    /\ \E response \in ClassifierResponses :
          LET r == process_page_segment(psGroups[1], psAvailable, response)
          IN /\ psCalls' = psCalls \o r.calls
             /\ IF r.raised
                THEN /\ psPc' = "raised"
                     /\ UNCHANGED <<psGroups, psCandidates>>
                ELSE /\ psCandidates' = psCandidates \o r.segment
                     /\ psGroups' = Tail(psGroups)
                     /\ psPc' = IF Len(psGroups) > 1 THEN "loop" ELSE "done"
    /\ UNCHANGED <<psSessions, psAvailable>>
    /\ UNCHANGED psOthers

PsNext == ProcessPageSessions \/ ProcessPageSegment

(***************************************************************************)
(* Candidate builder claims                                                *)
(***************************************************************************)

\* every classification so far yielded 'unknown'
EveryIntentUnknown == \A c \in 1..Len(psCalls) : psCalls[c].text = "unknown"

\* C18: when every classification yields 'unknown' (the classifier is
\* unavailable, fails or answers nothing), _process_page_segment drops the
\* candidate and raises nothing, and _process_page_sessions goes through all
\* page groups and returns.
C18_UnknownDropsCandidate ==
    EveryIntentUnknown =>
        /\ psPc # "raised"
        /\ psPc = "done" => psGroups = <<>> /\ psCandidates = <<>>

\* what does hold: the classifier yields 'unknown' on every call, and a run
\* in which no page group reaches the classifier returns the empty list
UnknownOnEveryCall ==
    /\ EveryIntentUnknown
    /\ psCalls = <<>> => /\ psPc # "raised"
                         /\ psPc = "done" => psGroups = <<>> /\ psCandidates = <<>>
    /\ psPc = "raised" <=> psCalls # <<>>

\* C27: for every non-empty input denoise_events returns a non-empty list; no
\* combination of the five filters removes every event.
C27_NonEmptyStaysNonEmpty ==
    \A k \in 1..Len(dnResults) :
        LET arg == IF k = 1 THEN dnEvents ELSE dnResults[k - 1]
        IN arg # <<>> => dnResults[k] # <<>>

\* a call that is given the largest batch and returns a single event
C27_Witness ==
    /\ dnResults # <<>>
    /\ Len(dnEvents) = MaxEvents
    /\ Len(dnResults[1]) = 1

(***************************************************************************)
(* Single filters of the denoiser, each run on lists of its own            *)
(***************************************************************************)

FlIdle ==
    /\ flEvents = <<>>
    /\ flResult = <<>>

MaxClickEvents == 5

\* the gap between the events of a click list: above the rapid-click and the
\* accidental-event thresholds, as in a list those two filters have passed
ClickGap == 300

\* type and element of the events a click list is made of; ElemBtn2 and
\* ElemCta share tag and class name, ElemBtn1 shares nothing with them
ClickKinds ==
    {[type |-> "click", element |-> e] : e \in {ElemBtn1, ElemBtn2, ElemCta}}
    \cup {[type |-> "type", element |-> NoElement]}

ClInit ==
    /\ \E n \in 0..MaxClickEvents :
          \E k \in [1..n -> ClickKinds] :
             flEvents = DnBatch(n, k, [i \in 1..n |-> (i - 1) * ClickGap])
    /\ flResult = <<>>

\* one call of _remove_consecutive_same_element_clicks
RemoveConsecutiveSameElementClicks ==
    /\ flResult = <<>>
    /\ flResult' = <<remove_consecutive_same_element_clicks(flEvents)>>
    /\ UNCHANGED flEvents
    /\ UNCHANGED flOthers

ClicksNext == RemoveConsecutiveSameElementClicks

\* the number of members of the unbroken run of clicks on the element of
\* s[i] that ends at s[i], counted backward over at most 10 events, s[i]
\* included
RunEndingAt(s, i) ==
    LET back[j \in 0..i] ==
            IF j = 0 \/ j <= i - 10 THEN 0
            ELSE IF s[j].type = "click" /\ SameTarget(s[i], s[j])
                 THEN 1 + back[j - 1]
                 ELSE 0
    IN 1 + back[i - 1]

\* four clicks in a row of r, each on the element of the last of them
FourInARow(r, i) ==
    /\ i >= 4
    /\ \A j \in (i - 3)..i : r[j].type = "click"
    /\ \A j \in (i - 3)..(i - 1) : SameTarget(r[i], r[j])

\* C21: the excessive-consecutive-click filter drops every click whose run
\* of clicks on the same element, counted backward over at most 10 events and
\* the click included, has more than 3 members, wherever the run lies in the
\* list; after the filter no 4 consecutive clicks on one element remain.
C21_RunsCutToThree ==
    flResult # <<>> =>
        /\ \A i \in 1..Len(flEvents) :
              (flEvents[i].type = "click" /\ RunEndingAt(flEvents, i) > 3) =>
                  \A j \in 1..Len(flResult[1]) : flResult[1][j] # flEvents[i]
        /\ \A i \in 1..Len(flResult[1]) : ~FourInARow(flResult[1], i)

\* what does hold: the run is counted without the first event of the list, so
\* the filter drops a click exactly when the run that ends at it has more
\* than 3 members among the events after the first
RunsCountedWithoutFirstEvent ==
    flResult # <<>> =>
        flResult[1] =
            SelectIdx(flEvents,
                      {i \in 1..Len(flEvents) :
                          ~(/\ flEvents[i].type = "click"
                            /\ i > 1
                            /\ RunEndingAt(Tail(flEvents), i - 1) > 3)})

MaxTabEvents == 7

\* the gaps between the events of a tab list: five short gaps stay below the
\* transient threshold, one long gap reaches it
TabGaps == {300, transient_tab_switch_threshold_ms}

TabKinds ==
    {[type |-> "tab-switch", element |-> NoElement],
     [type |-> "click", element |-> ElemBtn1]}

\* the timestamps of n events that start at 0 and lie the gaps g apart
TimesFromGaps(n, g) ==
    LET T[i \in 1..n] == IF i = 1 THEN 0 ELSE T[i - 1] + g[i - 1]
    IN T

TbInit ==
    /\ \E n \in 0..MaxTabEvents :
          \E k \in [1..n -> TabKinds], g \in [1..(n - 1) -> TabGaps] :
             flEvents = DnBatch(n, k, TimesFromGaps(n, g))
    /\ flResult = <<>>

\* one call of _remove_transient_tab_switches
RemoveTransientTabSwitches ==
    /\ flResult = <<>>
    /\ flResult' = <<remove_transient_tab_switches(flEvents)>>
    /\ UNCHANGED flEvents
    /\ UNCHANGED flOthers

TabsNext == RemoveTransientTabSwitches

\* one of the next 4 events after s[i] is a tab-switch less than the
\* transient threshold after it
SwitchedBackSoon(s, i) ==
    \E d \in 1..4 :
        /\ i + d <= Len(s)
        /\ s[i + d].type = "tab-switch"
        /\ s[i + d].timestamp - s[i].timestamp < transient_tab_switch_threshold_ms

\* C22: the transient tab-switch filter drops a tab-switch exactly when one
\* of the next 4 events after it in the filter's input is another tab-switch
\* within the 2000 ms threshold; events of other types are never dropped and
\* the events kept stay in order.
C22_TransientTabSwitches ==
    flResult # <<>> =>
        flResult[1] =
            SelectIdx(flEvents,
                      {i \in 1..Len(flEvents) :
                          ~(flEvents[i].type = "tab-switch" /\ SwitchedBackSoon(flEvents, i))})

\* a list in which one tab-switch is dropped, one is kept although the fifth
\* event after it is a tab-switch within the threshold, and one is kept
\* although the next event is a tab-switch exactly the threshold later
C22_Witness ==
    /\ flResult # <<>>
    /\ Len(flResult[1]) < Len(flEvents)
    /\ \E i \in 1..Len(flEvents) :
          /\ i + 5 <= Len(flEvents)
          /\ flEvents[i].type = "tab-switch"
          /\ flEvents[i + 5].type = "tab-switch"
          /\ flEvents[i + 5].timestamp - flEvents[i].timestamp < transient_tab_switch_threshold_ms
          /\ \E j \in 1..Len(flResult[1]) : flResult[1][j] = flEvents[i]

(***************************************************************************)
(* Page-local denoise of one page group                                    *)
(***************************************************************************)

MaxGroupEvents == 3

\* gaps below the accidental threshold, between it and the rapid-click
\* threshold, and above the focus/blur threshold
GroupGaps == {50, 150, 600}

GroupKinds ==
    {[type |-> "click", element |-> e] : e \in {ElemBtn1, ElemBtn2}}
    \cup {[type |-> t, element |-> NoElement] : t \in {"type", "focus", "blur"}}

\* a page group as _group_events_by_page builds it: events of one url and
\* one tab, sorted by timestamp
GroupEvents(n, k, g) ==
    [i \in 1..n |-> [id |-> i, type |-> k[i].type, element |-> k[i].element,
                     timestamp |-> TimesFromGaps(n, g)[i], url |-> UrlA, tab_id |-> 1]]

GrInit ==
    /\ \E n \in 0..MaxGroupEvents :
          \E k \in [1..n -> GroupKinds], g \in [1..(n - 1) -> GroupGaps] :
             flEvents = GroupEvents(n, k, g)
    /\ flResult = <<>>

\* one call of _denoise_page_events
DenoisePageEvents ==
    /\ flResult = <<>>
    /\ flResult' = <<denoise_page_events(flEvents)>>
    /\ UNCHANGED flEvents
    /\ UNCHANGED flOthers

GroupNext == DenoisePageEvents

\* C24: the page-local denoise of a page group retains exactly the events
\* that the Event Denoiser's rapid-click, accidental-event and focus/blur
\* rules retain on the events of the group; a click is dropped as rapid only
\* when the click before it is on the same element.
C24_PageRulesAreDenoiserRules ==
    flResult # <<>> =>
        flResult[1] =
            IF Len(flEvents) < 2 THEN flEvents
            ELSE SelectIdx(flEvents,
                           {i \in 1..Len(flEvents) :
                               /\ ~is_rapid_click(flEvents, i)
                               /\ ~is_accidental_event(flEvents, i)
                               /\ ~is_focus_blur_noise(flEvents, i)})

\* what does hold: within a page group every click no more than 200 ms after
\* a click is dropped as rapid, whatever the elements of the two clicks; the
\* accidental-event and focus/blur rules are those of the Event Denoiser
PageRapidClickIgnoresElement ==
    flResult # <<>> =>
        flResult[1] =
            SelectIdx(flEvents,
                      {i \in 1..Len(flEvents) :
                          /\ ~(/\ i > 1
                               /\ flEvents[i].type = "click"
                               /\ flEvents[i - 1].type = "click"
                               /\ flEvents[i].timestamp - flEvents[i - 1].timestamp <= 200)
                          /\ ~is_accidental_event(flEvents, i)
                          /\ ~is_focus_blur_noise(flEvents, i)})

(***************************************************************************)
(* Comparison with the store on batches beyond the batch sizes             *)
(***************************************************************************)

MaxCmpNew == 11
MaxCmpStored == 26

\* the ids of the stored workflows, the names of their files
CmpStoredIds ==
    <<"s01", "s02", "s03", "s04", "s05", "s06", "s07", "s08", "s09", "s10",
      "s11", "s12", "s13", "s14", "s15", "s16", "s17", "s18", "s19", "s20",
      "s21", "s22", "s23", "s24", "s25", "s26", "s27", "s28", "s29", "s30">>

CmInit ==
    /\ \E n \in 0..MaxCmpNew, m \in 0..MaxCmpStored :
          /\ ddWorkflows =
                [i \in 1..n |-> NewWorkflow(i, "a.com", "Fill cart", 9,
                                            <<ContextStep, ToolStep(<<"sheets_append">>)>>,
                                            "https://a.com/cart")]
          /\ ddStored = [i \in 1..m |-> StoredWorkflow(CmpStoredIds[i], "a.com")]
    /\ ddPc = "start"
    /\ ddBuckets = <<>>
    /\ ddLocal = NoLocal
    /\ ddUnique = <<>>
    /\ ddCalls = <<>>

\* the call of _efficient_batch_deduplication for the bucket of a.com, up to
\* its first oracle call
EfficientBatchDeduplication ==
    /\ ddPc = "start"
    /\ DdGoto(efficient_batch_deduplication(
                  ddWorkflows, ddStored,
                  <<[domain |-> "a.com", workflows |-> ddWorkflows]>>, <<>>))
    /\ UNCHANGED <<ddWorkflows, ddStored, ddCalls>>
    /\ UNCHANGED ddOthers

\* what the oracle answers to a request in these runs: an exception, no
\* group, or one group of a stored workflow with every new workflow, with the
\* first or with the last
CmpResponses(request) ==
    LET n == Len(request.new)
        first_stored == StrIdx(request.existing[1].id)
    IN {[kind |-> "raise", groups |-> <<>>],
        [kind |-> "json", groups |-> <<>>],
        [kind |-> "json", groups |-> <<[i \in 1..n |-> IntIdx(i - 1)] \o <<first_stored>>>>],
        [kind |-> "json", groups |-> <<<<IntIdx(0), first_stored>>>>],
        [kind |-> "json", groups |-> <<<<IntIdx(n - 1), first_stored>>>>]}

\* one call of _analyze_batch_deduplication with the answer of the oracle;
\* the call is recorded with the ids of its request and the groups of the answer
CompareBatch ==
    /\ ddPc = "compare"
    /\ LET request == compare_request(ddStored, ddBuckets, ddLocal)
       IN \E response \in CmpResponses(request) :
             /\ ddCalls' = Append(ddCalls,
                    [new |-> [i \in 1..Len(request.new) |-> request.new[i].id],
                     existing |-> [i \in 1..Len(request.existing) |-> request.existing[i].id],
                     kind |-> response.kind,
                     groups |-> response.groups])
             /\ DdGoto(after_compare(response, ddStored, ddBuckets, ddLocal, ddUnique))
    /\ UNCHANGED <<ddWorkflows, ddStored>>
    /\ UNCHANGED ddOthers

CmNext == EfficientBatchDeduplication \/ CompareBatch

\* the ids of the stored workflows, in the order of the store
StoredIdsInOrder == [i \in 1..Len(ddStored) |-> ddStored[i].id]

\* the position in the store of the first stored workflow of a request
SliceStart(record) ==
    CHOOSE i \in 1..Len(ddStored) : ddStored[i].id = record.existing[1]

\* the new workflows of a request that its answer puts into no group
NotDropped(record) ==
    SelectIdx(record.new,
              {i \in 1..Len(record.new) :
                  ~\E g \in 1..Len(record.groups) :
                      \E k \in 1..Len(record.groups[g]) :
                         /\ record.groups[g][k].is_int
                         /\ record.groups[g][k].n = i - 1})

\* C25: while new workflows are compared with stored ones every oracle
\* request holds at most 10 new and at most 25 stored workflows; the stored
\* batches are consulted one after another, a request for a later stored
\* batch holds only the new workflows that no earlier stored batch dropped,
\* and once no new workflow of the current batch is left no further request
\* is made for it.
C25_ProgressiveBatches ==
    /\ \A c \in 1..Len(ddCalls) :
          /\ Len(ddCalls[c].new) \in 1..10
          /\ Len(ddCalls[c].existing) \in 1..25
          /\ ddCalls[c].existing =
                SubSeq(StoredIdsInOrder, SliceStart(ddCalls[c]),
                       IF SliceStart(ddCalls[c]) + 24 < Len(ddStored)
                       THEN SliceStart(ddCalls[c]) + 24 ELSE Len(ddStored))
    /\ ddCalls # <<>> => SliceStart(ddCalls[1]) = 1
    /\ \A c \in 2..Len(ddCalls) :
          LET prev == ddCalls[c - 1]
              cur == ddCalls[c]
          IN IF NotDropped(prev) # <<>> /\ SliceStart(prev) + 25 <= Len(ddStored)
             THEN /\ SliceStart(cur) = SliceStart(prev) + 25
                  /\ cur.new = NotDropped(prev)
             ELSE /\ SliceStart(cur) = 1
                  /\ \A b \in 1..(c - 1) :
                        \A i \in 1..Len(cur.new), j \in 1..Len(ddCalls[b].new) :
                           cur.new[i] # ddCalls[b].new[j]

\* a request of 10 new and 25 stored workflows, then the 9 that were not
\* dropped against the 26th stored workflow, all of them dropped there, and
\* then the 11th new workflow against the first 25 stored ones
C25_Witness ==
    /\ Len(ddCalls) >= 3
    /\ Len(ddCalls[1].new) = 10
    /\ Len(ddCalls[1].existing) = 25
    /\ Len(ddCalls[2].new) = 9
    /\ ddCalls[2].existing = <<"s26">>
    /\ NotDropped(ddCalls[2]) = <<>>
    /\ ddCalls[3].new = <<11>>
    /\ Len(ddCalls[3].existing) = 25

(***************************************************************************)
(* Workflow Exporter (WorkflowExporter) and the reader of its files        *)
(***************************************************************************)

\* Python's truth value of an Optional[str]
Falsy(text) == text \in {None, ""}

\* _sanitize_folder_name on the summaries of the model: every character that
\* is not alphanumeric or one of ".-_" becomes "_", runs of "_" collapse
sanitize_folder_name(name) ==
    CASE name = "Fill cart" -> "Fill_cart"
      [] name = "Fill/cart" -> "Fill_cart"
      [] name = "" -> "unknown"
      [] OTHER -> name

\* the step_data of _create_workflow_file; the key "tools" exists for a tool
\* step with tools only and then holds a dict with the keys tool_names,
\* tool_count and tool_details
step_data_of(step, number) ==
    [step_number |-> number,
     step_type |-> step.step_type,
     tools_key |-> step.step_type = "tool" /\ step.tools # <<>>,
     tools |-> IF step.step_type = "tool" /\ step.tools # <<>>
               THEN [tool_names |-> step.tools, tool_count |-> Len(step.tools)]
               ELSE [tool_names |-> <<>>, tool_count |-> 0]]

\* the workflow_data that _create_workflow_file dumps as JSON, without
\* created_at and the analysis part, which the reader does not use for the
\* fields below
workflow_data_of(workflow) ==
    [metadata |-> [id |-> workflow.id,
                   summary |-> workflow.summary,
                   domain |-> workflow.domain,
                   url_pattern |-> workflow.url_pattern,
                   step_count |-> Len(workflow.steps),
                   has_tools |-> \E i \in 1..Len(workflow.steps) : workflow.steps[i].tools # <<>>],
     workflow |-> [summary |-> workflow.summary,
                   domain |-> workflow.domain,
                   url_pattern |-> workflow.url_pattern,
                   steps |-> [i \in 1..Len(workflow.steps) |->
                                 step_data_of(workflow.steps[i], i)]]]

\* the name of the file of _create_workflow_file, f"{index:02d}_{safe_summary}.json"
\* (the summaries of the model are shorter than the 50 characters it keeps)
file_name_of(workflow, index) ==
    [index |-> index, safe_summary |-> sanitize_folder_name(workflow.summary)]

\* open(file_path, "w") and json.dump: the file of this name now holds data
write_file(files, name, data) ==
    {f \in files : f.name # name} \cup {[name |-> name, data |-> data]}

\* export_workflows: the files of the directory after the call
export_workflows(files, workflows) ==
    LET F[i \in 0..Len(workflows)] ==
            IF i = 0 THEN files
            ELSE write_file(F[i - 1], file_name_of(workflows[i], i),
                            workflow_data_of(workflows[i]))
    IN F[Len(workflows)]

\* list.extend(d) for a dict d appends the keys of d
keys_of_tools_dict == <<"tool_names", "tool_count", "tool_details">>

\* the compact_workflow that _get_existing_workflows_from_json builds from
\* one file; tool_names is list(set(...)), read as a set
compact_workflow_of(file) ==
    LET metadata == file.data.metadata
        workflow == file.data.workflow
        steps == workflow.steps
        tool_names ==
            UNION {{keys_of_tools_dict[k] : k \in 1..Len(keys_of_tools_dict)} :
                      i \in {j \in 1..Len(steps) :
                                steps[j].step_type = "tool" /\ steps[j].tools_key}}
    IN [id |-> file.name,
        summary |-> IF Falsy(metadata.summary) THEN workflow.summary ELSE metadata.summary,
        domain |-> IF ~Falsy(metadata.domain) THEN metadata.domain
                   ELSE IF ~Falsy(workflow.domain) THEN workflow.domain
                   ELSE "unknown",
        url_pattern |-> IF Falsy(metadata.url_pattern) THEN workflow.url_pattern
                        ELSE metadata.url_pattern,
        step_count |-> metadata.step_count,
        has_tools |-> metadata.has_tools,
        step_types |-> [i \in 1..Len(steps) |-> steps[i].step_type],
        tool_names |-> tool_names,
        workflow_id |-> metadata.id]

MaxExport == 2
MaxExportCalls == 2

ExWorkflow(id, summary, d, url_pattern, steps) ==
    [id |-> id, summary |-> summary, domain |-> d, url_pattern |-> url_pattern,
     steps |-> steps]

\* the workflows the calls of export_workflows are made of
ExPool ==
    <<ExWorkflow("w1", "Fill cart", "a.com", "https://a.com/cart",
                 <<ContextStep, ToolStep(<<"sheets_append">>)>>),
      ExWorkflow("w2", "Fill/cart", None, None,
                 <<ContextStep, ToolStep(<<"sheets_append", "gmail_send">>)>>),
      ExWorkflow("w3", "Search", "b.com", "https://b.com/*",
                 <<ContextStep, ToolStep(<<>>)>>),
      ExWorkflow("w4", "Fill cart", "a.com", "https://a.com/cart",
                 <<ContextStep, ContextStep, ToolStep(<<"gmail_send">>)>>)>>

ExIdle ==
    /\ exFiles = {}
    /\ exCalls = 0
    /\ exTotal = <<>>
    /\ exRead = <<>>

\* the output directory is empty when the exporter is made
ExInit == ExIdle

\* one call of export_workflows
ExportWorkflows ==
    /\ exCalls < MaxExportCalls
    /\ exRead = <<>>
    /\ \E workflows \in ListsOf(ExPool, MaxExport) :
          /\ exFiles' = IF workflows = <<>> THEN exFiles
                        ELSE export_workflows(exFiles, workflows)
          /\ exTotal' = exTotal \o workflows
    /\ exCalls' = exCalls + 1
    /\ UNCHANGED exRead
    /\ UNCHANGED exOthers

\* one call of _get_existing_workflows_from_json without filter and limit
GetExistingWorkflowsFromJson ==
    /\ exRead = <<>>
    /\ exRead' = <<{compact_workflow_of(f) : f \in exFiles}>>
    /\ UNCHANGED <<exFiles, exCalls, exTotal>>
    /\ UNCHANGED exOthers

ExNext == ExportWorkflows \/ GetExistingWorkflowsFromJson

\* the workflow of the pool with this id
ExportedWorkflow(id) ==
    ExPool[CHOOSE i \in 1..Len(ExPool) : ExPool[i].id = id]

\* the tool names that the tool steps of a workflow refer to
ToolNamesOf(workflow) ==
    UNION {{workflow.steps[i].tools[k] : k \in 1..Len(workflow.steps[i].tools)} :
              i \in {j \in 1..Len(workflow.steps) : workflow.steps[j].step_type = "tool"}}

\* summary, domain, url_pattern and step count of a record read back are
\* those of the workflow
FieldsRoundTrip(c) ==
    LET w == ExportedWorkflow(c.workflow_id)
    IN /\ c.summary = w.summary
       /\ c.domain = IF w.domain = None THEN "unknown" ELSE w.domain
       /\ c.url_pattern = w.url_pattern
       /\ c.step_count = Len(w.steps)

\* C26: a workflow that is exported and read back yields a compact record
\* with the workflow's summary, domain (null read as "unknown"), url_pattern
\* and step count, and with tool_names equal to the set of the tool names of
\* the workflow's tool steps.
C26_ExportReadRoundTrip ==
    exRead # <<>> =>
        \A c \in exRead[1] :
            /\ FieldsRoundTrip(c)
            /\ c.tool_names = ToolNamesOf(ExportedWorkflow(c.workflow_id))

\* what does hold: the other fields round-trip, and tool_names holds the
\* keys of the exported "tools" object when a tool step has tools, and
\* nothing otherwise
ToolNamesAreDictKeys ==
    exRead # <<>> =>
        \A c \in exRead[1] :
            /\ FieldsRoundTrip(c)
            /\ c.tool_names =
                  IF ToolNamesOf(ExportedWorkflow(c.workflow_id)) = {} THEN {}
                  ELSE {"tool_names", "tool_count", "tool_details"}

\* C30: over the calls of export_workflows on one output directory a file
\* written by an earlier call is never overwritten, and the directory holds
\* as many files as workflows were exported.
C30_FilesNeverOverwritten ==
    /\ [](Cardinality(exFiles) = Len(exTotal))
    /\ [][\A f \in exFiles : f \in exFiles']_vars

\* what does hold: a call writes one file per workflow, named by the
\* position of the workflow in the call and its sanitized summary, and leaves
\* the files of other names as they are
FilesNamedByPositionAndSummary ==
    [][exFiles' # exFiles =>
          \E workflows \in ListsOf(ExPool, MaxExport) :
              /\ exTotal' = exTotal \o workflows
              /\ {f.name : f \in exFiles'} =
                    {f.name : f \in exFiles}
                    \cup {[index |-> i, safe_summary |-> sanitize_folder_name(workflows[i].summary)] :
                             i \in 1..Len(workflows)}
              /\ \A f \in exFiles :
                    (\A i \in 1..Len(workflows) :
                        f.name # [index |-> i,
                                  safe_summary |-> sanitize_folder_name(workflows[i].summary)])
                       => f \in exFiles']_vars

(***************************************************************************)
(* Workflow Processor: a segment becomes a workflow                        *)
(***************************************************************************)

\* _generate_workflow_summary: the text before the counts
generate_workflow_summary(segment) ==
    CASE segment.segment_type = "form_filling" -> "Fill out form with"
      [] segment.segment_type = "navigation" -> "Navigate through"
      [] segment.segment_type = "content_interaction" -> "Interact with content"
      [] segment.segment_type = "search" -> "Search and browse results"
      [] segment.segment_type = "page_session" -> "Browse page with"
      [] OTHER -> "User activity with"

\* mutant of generate_workflow_steps: only the three named segment types get
\* a tool step
generate_workflow_steps_named_types(segment) ==
    <<WvStepNoTools("browser_context")>>
    \o (CASE segment.segment_type = "form_filling" ->
                <<WvStep("tool", <<"google-sheets-add-rows", "hubspot-add-contact">>)>>
          [] segment.segment_type = "content_interaction" ->
                <<WvStep("tool", <<"notion-add-page", "google-docs-create">>)>>
          [] segment.segment_type = "search" ->
                <<WvStep("tool", <<"google-sheets-add-rows", "notion-add-page">>)>>
          [] OTHER -> <<>>)

\* _generate_workflow_steps: a browser_context step with tools=None, then the
\* tool step of the segment type
generate_workflow_steps(segment) ==
    <<WvStepNoTools("browser_context")>>
    \o (CASE segment.segment_type = "form_filling" ->
                <<WvStep("tool", <<"google-sheets-add-rows", "hubspot-add-contact">>)>>
          [] segment.segment_type = "content_interaction" ->
                <<WvStep("tool", <<"notion-add-page", "google-docs-create">>)>>
          [] segment.segment_type = "search" ->
                <<WvStep("tool", <<"google-sheets-add-rows", "notion-add-page">>)>>
          [] OTHER -> <<WvStep("tool", <<"google-sheets-add-rows">>)>>)

\* _extract_url_pattern on segments whose events have no url (domain None), a
\* url without host (domain "") or a url of a.com
extract_url_pattern(segment) ==
    IF \E i \in 1..Len(segment.event_domains) : segment.event_domains[i] = "a.com"
    THEN "*://a.com/*"
    ELSE None

NoWorkflow == [present |-> FALSE, summary |-> "", steps |-> <<>>, domain |-> None,
               url_pattern |-> None]

\* _segment_to_workflow: None when an exception is raised inside its try or
\* when there are no steps, else the workflow
segment_to_workflow(segment, raises) ==
    IF raises THEN NoWorkflow
    ELSE LET steps == generate_workflow_steps(segment)
         IN IF steps = <<>> THEN NoWorkflow
            ELSE [present |-> TRUE,
                  summary |-> generate_workflow_summary(segment),
                  steps |-> steps,
                  domain |-> segment.domain,
                  url_pattern |-> extract_url_pattern(segment)]

MaxSegmentEvents == 2

\* EventSegment.segment_type is any string; the types the classifier and the
\* segment builder assign, the default and others
SwSegmentTypes ==
    {"form_filling", "navigation", "content_interaction", "search", "page_session",
     "mixed_activity", "unknown", "", "checkout"}

SwIdle ==
    /\ swSegment = [segment_type |-> "unknown", event_domains |-> <<>>, domain |-> None,
                    raises |-> FALSE]
    /\ swResult = <<>>

SwInit ==
    /\ \E t \in SwSegmentTypes, n \in 0..MaxSegmentEvents, raises \in BOOLEAN :
          \E d \in [1..n -> {None, "", "a.com"}] :
             swSegment = [segment_type |-> t, event_domains |-> d,
                          domain |-> IF n = 0 THEN None ELSE d[1],
                          raises |-> raises]
    /\ swResult = <<>>

\* one call of _segment_to_workflow
SegmentToWorkflow ==
    /\ swResult = <<>>
    /\ swResult' = <<segment_to_workflow(swSegment, swSegment.raises)>>
    /\ UNCHANGED swSegment
    /\ UNCHANGED swOthers

SwNext == SegmentToWorkflow

\* C29: every workflow that _segment_to_workflow produces has exactly 2
\* steps, the first a browser_context step and the second a tool step with a
\* non-empty list of tools, whatever the type of the segment; so it passes
\* the step checks of the validator.
C29_TwoStepsContextThenTool ==
    (swResult # <<>> /\ swResult[1].present) =>
        LET steps == swResult[1].steps
        IN /\ Len(steps) = 2
           /\ steps[1].step_type = "browser_context"
           /\ steps[2].step_type = "tool"
           /\ ~steps[2].tools_is_none
           /\ steps[2].tools # <<>>
           /\ has_valid_steps(steps)

\* a workflow made from a segment of a type that has no tool step of its own
C29_Witness ==
    /\ swResult # <<>>
    /\ swResult[1].present
    /\ swSegment.segment_type = "checkout"
    /\ Len(swSegment.event_domains) = MaxSegmentEvents

(***************************************************************************)
(* Specifications                                                          *)
(***************************************************************************)

DenoiseInit == DnInit /\ BkIdle /\ PgIdle /\ ScIdle /\ DdIdle /\ WvIdle /\ SvIdle /\ PsIdle /\ FlIdle /\ ExIdle /\ SwIdle
SpecDenoise == DenoiseInit /\ [][DnNext]_vars

BreakInit == BkInit /\ DnIdle /\ PgIdle /\ ScIdle /\ DdIdle /\ WvIdle /\ SvIdle /\ PsIdle /\ FlIdle /\ ExIdle /\ SwIdle
SpecBreak == BreakInit /\ [][BkNext]_vars

BreakRunsInit == BkRunInit /\ DnIdle /\ PgIdle /\ ScIdle /\ DdIdle /\ WvIdle /\ SvIdle /\ PsIdle /\ FlIdle /\ ExIdle /\ SwIdle
SpecBreakRuns == BreakRunsInit /\ [][BkNext]_vars

PageInit == PgInit /\ DnIdle /\ BkIdle /\ ScIdle /\ DdIdle /\ WvIdle /\ SvIdle /\ PsIdle /\ FlIdle /\ ExIdle /\ SwIdle
SpecPage == PageInit /\ [][PgNext]_vars

SegmentInit == SgInit /\ DnIdle /\ BkIdle /\ ScIdle /\ DdIdle /\ WvIdle /\ SvIdle /\ PsIdle /\ FlIdle /\ ExIdle /\ SwIdle
SpecSegment == SegmentInit /\ [][SgNext]_vars

ScoreInit == ScInit /\ DnIdle /\ BkIdle /\ PgIdle /\ DdIdle /\ WvIdle /\ SvIdle /\ PsIdle /\ FlIdle /\ ExIdle /\ SwIdle
SpecScore == ScoreInit /\ [][ScNext]_vars

DedupInit == DdInit /\ DnIdle /\ BkIdle /\ PgIdle /\ ScIdle /\ WvIdle /\ SvIdle /\ PsIdle /\ FlIdle /\ ExIdle /\ SwIdle
SpecDedup == DedupInit /\ [][DdNext]_vars

CompareInit == CmInit /\ DnIdle /\ BkIdle /\ PgIdle /\ ScIdle /\ WvIdle /\ SvIdle /\ PsIdle /\ FlIdle /\ ExIdle /\ SwIdle
SpecCompare == CompareInit /\ [][CmNext]_vars

ExportInit == ExInit /\ DnIdle /\ BkIdle /\ PgIdle /\ ScIdle /\ DdIdle /\ WvIdle /\ SvIdle /\ PsIdle /\ FlIdle /\ SwIdle
SpecExport == ExportInit /\ [][ExNext]_vars

ProcessorInit == SwInit /\ DnIdle /\ BkIdle /\ PgIdle /\ ScIdle /\ DdIdle /\ WvIdle /\ SvIdle /\ PsIdle /\ FlIdle /\ ExIdle
SpecProcessor == ProcessorInit /\ [][SwNext]_vars

ValidateInit == WvInit /\ DnIdle /\ BkIdle /\ PgIdle /\ ScIdle /\ DdIdle /\ SvIdle /\ PsIdle /\ FlIdle /\ ExIdle /\ SwIdle
SpecValidate == ValidateInit /\ [][WvNext]_vars

SaveInit == SvInit /\ DnIdle /\ BkIdle /\ PgIdle /\ ScIdle /\ DdIdle /\ WvIdle /\ PsIdle /\ FlIdle /\ ExIdle /\ SwIdle
SpecSave == SaveInit /\ [][SvNext]_vars

CandidateInit == PsInit /\ DnIdle /\ BkIdle /\ PgIdle /\ ScIdle /\ DdIdle /\ WvIdle /\ SvIdle /\ FlIdle /\ ExIdle /\ SwIdle
SpecCandidate == CandidateInit /\ [][PsNext]_vars

ClicksInit == ClInit /\ DnIdle /\ BkIdle /\ PgIdle /\ ScIdle /\ DdIdle /\ WvIdle /\ SvIdle /\ PsIdle /\ ExIdle /\ SwIdle
SpecClicks == ClicksInit /\ [][ClicksNext]_vars

TabsInit == TbInit /\ DnIdle /\ BkIdle /\ PgIdle /\ ScIdle /\ DdIdle /\ WvIdle /\ SvIdle /\ PsIdle /\ ExIdle /\ SwIdle
SpecTabs == TabsInit /\ [][TabsNext]_vars

GroupInit == GrInit /\ DnIdle /\ BkIdle /\ PgIdle /\ ScIdle /\ DdIdle /\ WvIdle /\ SvIdle /\ PsIdle /\ ExIdle /\ SwIdle
SpecGroup == GroupInit /\ [][GroupNext]_vars

====
